---- MODULE Spec2Model ----
(***************************************************************************)
(* FreakWAN mesh engine (freakwan.py) with its collaborators: the message  *)
(* object (message.py), the duty-cycle tracker (dutycycle.py) and the      *)
(* SX1262 radio driver's software state (sx1262.py).                       *)
(*                                                                         *)
(* Time is the value of time.ticks_ms() in model ticks.  Every duration of *)
(* the source is scaled to a few ticks; the scaled values are the          *)
(* definitions named after the source constants below.                     *)
(*                                                                         *)
(* Python objects are cells of `heap', addressed by an object id: the      *)
(* send queue, the processed cache and the local list send_later hold      *)
(* references, so a change made through one reference (an Ack recorded in  *)
(* the cached message) is seen through the others, as in the source.       *)
(***************************************************************************)
EXTENDS Integers, Sequences, FiniteSets, TLC

\* ------------------------------------------------------------------ bounds
MaxTime == 3            \* the clock stops advancing here
MaxLongTime == 5        \* the same, for the specification CountSpec
MaxTtl == 3             \* largest ttl a message is originated with
MaxAppends == 6         \* History.append calls in one behaviour
MaxHistLen == 3         \* largest histlen a History is built with
MaxPayload == 17        \* bytes after the 7-byte header of a packet to encrypt
NumOids == 3            \* heap cells (message objects alive at once)

\* ------------------------------------------------- constants of the source
MessageTypeData == 0
MessageTypeAck == 1
MessageTypeHello == 2

MessageFlagsNone == 0
MessageFlagsRelayed == 1
MessageFlagsPleaseRelay == 2
MessageFlagsMedia == 8
MessageFlagsEncr == 16
MessageFlagsBadCRC == 256

TX_AGAIN_MIN_DELAY == 1     \* 3000 ms in the source
TX_AGAIN_MAX_DELAY == 2     \* 8000 ms in the source
TX_WATCHDOG_TIME == 1       \* 60000 ms in the source
relay_num_tx == 3
relay_max_delay == 1        \* 10000 ms in the source
relay_rssi_limit == -60
QueueMax == 1               \* send_queue_max, 100 in the source
MeshQueueMax == 2           \* the same, for the specification MeshSpec
default_ttl == 15
user_num_tx == 3
evict_count == 1             \* 10 in the source
evict_maxage == 1           \* 60000 ms in the source
hello_msg_max_age == 2      \* 600000 ms in the source
max_neighbors == 1          \* 32 in the source
poa_preamble_timeout == 1   \* 2000 ms in the source
poa_header_timeout == 2     \* 5000 ms in the source
POAPreamble == 0
POAHeader == 1
slots_num == 2              \* DutyCycle(slots_num=5, ...) in the source
slots_dur == 2              \* 60*5 s in the source
\* The source has no duty-cycle cap setting; the value is the one of the
\* specification's cut-off scenario (cap = 10 %).
duty_cycle_cap == 10
histlen == 2                \* History("msg.db", histlen=100, ...) in the source

\* ------------------------------------------------------------ input domains
ThisSender == "me"
Senders == {"X", "Y"}            \* remote nodes
HelloSenders == {"X", "Y", "Z"}  \* nodes whose Hello reaches this one
LocalUIDs == {1}                 \* values urandom.getrandbits(32) may give
UIDs == {1, 2}                   \* uids of the frames on the channel
OIDs == 1..NumOids
NoOid == 0

\* ------------------------------------------------------------- flag helpers
HasFlag(flags, bit) == (flags \div bit) % 2 = 1
SetFlag(flags, bit) == IF HasFlag(flags, bit) THEN flags ELSE flags + bit

Max(a, b) == IF a > b THEN a ELSE b
Min(a, b) == IF a < b THEN a ELSE b

VARIABLES
    send_queue_max, \* FreakWAN.send_queue_max, set once in __init__
    now,          \* time.ticks_ms() / time.time()
    config,       \* FreakWAN.config: quiet, prom, check_crc, automsg
    heap,         \* Message objects
    send_queue,   \* FreakWAN.send_queue: list of references
    send_later,   \* local list of send_messages_in_queue
    pc,           \* position of the cron task
    processed_a,  \* FreakWAN.processed_a: references, keyed by uid
    processed_b,  \* FreakWAN.processed_b
    neighbors,    \* FreakWAN.neighbors: sender -> ctime of the stored Hello
    lora,         \* SX1262 software state
    duty_cycle,   \* DutyCycle object
    on_air,       \* reference to the message whose frame lora.send got last
    hist,         \* a History object with its two files, on its own
    tmp,          \* what the running task holds in a local or on its stack
    call,         \* a call of a pure function: its inputs and what it returned
    ev            \* the last operation with its inputs and outputs

vars == <<send_queue_max, now, config, heap, send_queue, send_later, pc, processed_a,
          processed_b, neighbors, lora, duty_cycle, on_air, hist, tmp, call, ev>>

\* ------------------------------------------------------------------ Message
FreeCell == [type |-> -1, flags |-> 0, uid |-> 0, ttl |-> 0, sender |-> "",
             rssi |-> 0, ack_type |-> 0, seen |-> 0, ctime |-> 0,
             send_time |-> 0,
             num_tx |-> 0, acks |-> {}, send_canceled |-> FALSE,
             no_key |-> FALSE, packet |-> "", keyed |-> FALSE,
             sent |-> FALSE, txs |-> 0, asked_tx |-> 0]

\* Message.__init__: ctime and send_time are the creation time, num_tx 1,
\* no acks, not canceled.  `sent' records that the object was handed to the
\* radio at least once, `txs' how many times since it was enqueued and
\* `asked_tx' the num_tx it was enqueued with.
Message(mtype, flags, uid, ttl, sender, seen, keyed, t) ==
    [type |-> mtype, flags |-> flags, uid |-> uid, ttl |-> ttl,
     sender |-> sender, rssi |-> 0, ack_type |-> 0, seen |-> seen,
     ctime |-> t, send_time |-> t, num_tx |-> 1, acks |-> {}, send_canceled |-> FALSE,
     no_key |-> FALSE, packet |-> "", keyed |-> keyed, sent |-> FALSE,
     txs |-> 0, asked_tx |-> 0]

\* Message.encode of a message that could not be decrypted: the plain
\* header packed from the object's fields, then the saved packet from byte
\* 7 on.
encode_no_key(m) ==
    [type |-> m.type, flags |-> m.flags, uid |-> m.uid, ttl |-> m.ttl,
     tail |-> m.packet]

\* Message.encode returns None only for a type it does not know.
encode_ok(m) ==
    m.no_key \/ m.type \in {MessageTypeData, MessageTypeAck, MessageTypeHello}

\* --------------------------------------------------------------- DutyCycle
get_epoch(t) == t \div slots_dur
get_slot_index(t) == get_epoch(t) % slots_num

get_current_tx_time(dc, t) ==
    IF dc.tx_start_time = -1 THEN 0 ELSE t - dc.tx_start_time

start_tx(dc, t) == [dc EXCEPT !.tx_start_time = t]

end_tx(dc, t) ==
    LET txtime == get_current_tx_time(dc, t)
        idx == get_slot_index(t)
        epoch == get_epoch(t)
        slot == dc.slots[idx]
        base == IF slot.epoch # epoch THEN 0 ELSE slot.txtime
    IN [dc EXCEPT !.slots[idx] = [txtime |-> base + txtime, epoch |-> epoch],
                  !.tx_start_time = -1]

ValidSlots(dc, t) ==
    {i \in DOMAIN dc.slots :
        dc.slots[i].epoch > Max(get_epoch(t) - slots_num, 0)}

RECURSIVE SumTx(_, _)
SumTx(dc, S) ==
    IF S = {} THEN 0
    ELSE LET i == CHOOSE j \in S : TRUE
         IN dc.slots[i].txtime + SumTx(dc, S \ {i})

\* get_duty_cycle() >= cap, with the division of the source multiplied out:
\* (txtime / (slots_dur*valid_slots*1000)) * 100 >= cap, txtime in ticks.
duty_cycle_at_least(dc, t, cap) ==
    LET V == ValidSlots(dc, t)
    IN IF V = {} THEN 0 >= cap
       ELSE 100 * SumTx(dc, V) >= cap * slots_dur * Cardinality(V)

\* ------------------------------------------------------------ heap helpers
Elems(q) == {q[i] : i \in DOMAIN q}

\* Objects still referenced; every other cell is garbage.
Roots(q, sl, pa, pb, oa) == (Elems(q) \cup Elems(sl) \cup pa \cup pb \cup {oa})

Collect(h, q, sl, pa, pb, oa) ==
    [o \in OIDs |-> IF o \in Roots(q, sl, pa, pb, oa) THEN h[o] ELSE FreeCell]

FreeOids(h) == {o \in OIDs : h[o].type = -1}

\* The n-th free cell (n = 1, 2), NoOid when there is none.
FirstFree(h) ==
    IF FreeOids(h) = {} THEN NoOid
    ELSE CHOOSE o \in FreeOids(h) : \A p \in FreeOids(h) : o <= p

SecondFree(h) ==
    LET rest == FreeOids(h) \ {FirstFree(h)}
    IN IF rest = {} THEN NoOid
       ELSE CHOOSE o \in rest : \A p \in rest : o <= p

\* ---------------------------------------------------------- processed cache
\* get_processed_message: the cached object with that uid, in either
\* generation; NoOid stands for None.
get_processed_message(h, pa, pb, uid) ==
    IF \E o \in pa : h[o].uid = uid
    THEN CHOOSE o \in pa : h[o].uid = uid
    ELSE IF \E o \in pb : h[o].uid = uid
         THEN CHOOSE o \in pb : h[o].uid = uid
         ELSE NoOid

\* A variant of mark_as_processed that never looks the uid up: every Data
\* message is cached and reported as new.
mark_as_processed_no_lookup(st, pb, o, prom) ==
    IF st.heap[o].type = MessageTypeData
    THEN [st EXCEPT !.pa = @ \cup {o}, !.dup = FALSE]
    ELSE [st EXCEPT !.dup = FALSE]

\* mark_as_processed(m) for the object in cell o.  st is the part of the
\* state the receive and enqueue paths update: [heap, q, pa].  The result
\* carries `dup', the value the method returns.
mark_as_processed(st, pb, o, prom) ==
    IF st.heap[o].type = MessageTypeData
    THEN IF get_processed_message(st.heap, st.pa, pb, st.heap[o].uid) # NoOid
         THEN [st EXCEPT !.dup = ~prom]
         ELSE [st EXCEPT !.pa = @ \cup {o}, !.dup = FALSE]
    ELSE [st EXCEPT !.dup = FALSE]

\* send_asynchronously(m, max_delay, num_tx, relay) for the object in cell
\* o; d is the value urandom.randint(0, max_delay) gave.  `ok' is the
\* value the method returns.
send_asynchronously(st, pb, o, d, num_tx, relay, prom, t) ==
    IF Len(st.q) >= send_queue_max
    THEN [st EXCEPT !.ok = FALSE]
    ELSE LET h1 == [st.heap EXCEPT
                      ![o].send_time = t + d,
                      ![o].num_tx = num_tx,
                      ![o].asked_tx = num_tx,
                      ![o].txs = 0,
                      ![o].flags = IF relay
                                   THEN SetFlag(@, MessageFlagsPleaseRelay)
                                   ELSE @]
             st1 == [st EXCEPT !.heap = h1, !.q = Append(@, o)]
         IN [mark_as_processed(st1, pb, o, prom) EXCEPT !.ok = TRUE]

\* send_ack_if_needed(m): m is the received Data in cell o, a is the cell
\* for the Ack object.
send_ack_needed(m, quiet) ==
    /\ ~quiet
    /\ m.type = MessageTypeData
    /\ ~HasFlag(m.flags, MessageFlagsMedia)
    /\ ~HasFlag(m.flags, MessageFlagsRelayed)

send_ack_if_needed(st, pb, o, a, quiet, prom, t) ==
    IF send_ack_needed(st.heap[o], quiet)
    THEN LET m == st.heap[o]
             ack == [Message(MessageTypeAck, 0, m.uid, default_ttl,
                             ThisSender, 0, FALSE, t)
                       EXCEPT !.ack_type = m.type]
             st1 == [st EXCEPT !.heap[a] = ack]
             st2 == send_asynchronously(st1, pb, a, 0, 1, FALSE, prom, t)
         IN [st2 EXCEPT !.ack = IF st2.ok THEN a ELSE NoOid]
    ELSE st

\* A variant of the relay gates without the test on the rssi.
relay_allowed_any_rssi(m, quiet) ==
    /\ ~quiet
    /\ m.type = MessageTypeData
    /\ HasFlag(m.flags, MessageFlagsPleaseRelay)
    /\ m.ttl > 1

\* The gates with the relay limit at ttl 0 in place of 1.
relay_allowed_at_ttl_1(m, quiet) ==
    /\ ~quiet
    /\ m.type = MessageTypeData
    /\ HasFlag(m.flags, MessageFlagsPleaseRelay)
    /\ ~(m.rssi > relay_rssi_limit)
    /\ ~(m.ttl <= 0)

\* relay_if_needed(m): the gates, then the update of the received object
\* itself and its enqueueing; d is the random delay drawn.
relay_allowed(m, quiet) ==
    /\ ~quiet
    /\ m.type = MessageTypeData
    /\ HasFlag(m.flags, MessageFlagsPleaseRelay)
    /\ ~(m.rssi > relay_rssi_limit)
    /\ ~(m.ttl <= 1)

\* A variant of relay_if_needed that leaves the ttl as received.
relay_if_needed_same_ttl(st, pb, o, d, quiet, prom, t) ==
    IF relay_allowed(st.heap[o], quiet)
    THEN LET h1 == [st.heap EXCEPT
                      ![o].flags = SetFlag(@, MessageFlagsRelayed)]
             st1 == [st EXCEPT !.heap = h1]
             st2 == send_asynchronously(st1, pb, o, d, relay_num_tx, FALSE,
                                        prom, t)
         IN [st2 EXCEPT !.relay = IF st2.ok THEN o ELSE NoOid]
    ELSE st

\* relay_if_needed(m) for the received message in cell o.
relay_if_needed(st, pb, o, d, quiet, prom, t) ==
    IF relay_allowed(st.heap[o], quiet)
    THEN LET h1 == [st.heap EXCEPT
                      ![o].ttl = @ - 1,
                      ![o].flags = SetFlag(@, MessageFlagsRelayed)]
             st1 == [st EXCEPT !.heap = h1]
             st2 == send_asynchronously(st1, pb, o, d, relay_num_tx, FALSE,
                                        prom, t)
         IN [st2 EXCEPT !.relay = IF st2.ok THEN o ELSE NoOid]
    ELSE st

\* ------------------------------------------------------------ received data
\* A frame as the radio delivers it, described by what Message.decode makes
\* of it: kind "plain" (no Encrypted flag), "decrypted" (a key of the
\* keychain authenticates it), "no_key" (Encrypted, no key matches) or
\* "garbage" (decode fails).  `tail' stands for the bytes of the packet from
\* byte 7 on.
Frame(kind, type, flags, uid, ttl, sender, rssi, bad_crc) ==
    [kind |-> kind, type |-> type, flags |-> flags, uid |-> uid, ttl |-> ttl,
     sender |-> sender, rssi |-> rssi, bad_crc |-> bad_crc, tail |-> "p"]

WeakRssi == -90
StrongRssi == -30

\* <<flags, ttl, rssi>> of the Data frames: one that passes every gate of
\* relay_if_needed and one for each gate it fails, plus an already relayed
\* one.
DataShapes ==
    { <<MessageFlagsPleaseRelay, 2, WeakRssi>>,
      <<MessageFlagsPleaseRelay, 2, StrongRssi>>,
      <<MessageFlagsPleaseRelay, 1, WeakRssi>>,
      <<MessageFlagsNone, 2, WeakRssi>>,
      <<MessageFlagsPleaseRelay + MessageFlagsRelayed, 2, WeakRssi>> }

DataFrames ==
    { Frame(k, MessageTypeData,
            IF k = "plain" THEN sh[1] ELSE sh[1] + MessageFlagsEncr,
            u, sh[2], "X", sh[3], FALSE) :
        k \in {"plain", "decrypted", "no_key"}, sh \in DataShapes,
        u \in UIDs }

BadCrcFrames ==
    { Frame("plain", MessageTypeData, MessageFlagsPleaseRelay, u, 2, "X",
            WeakRssi, TRUE) : u \in UIDs }

AckFrames ==
    { Frame("plain", MessageTypeAck, MessageFlagsNone, u, 0, s, WeakRssi,
            FALSE) : u \in UIDs, s \in Senders }

HelloFrames ==
    { Frame("plain", MessageTypeHello, MessageFlagsNone, 0, 0, s, WeakRssi,
            FALSE) : s \in Senders }

GarbageFrames ==
    { Frame("garbage", -1, 0, 0, 0, "", WeakRssi, FALSE) }

\* No frame at all.
NoFrame == Frame("none", -1, 0, 0, 0, "", 0, FALSE)

\* A variant of from_encoded that does not save the packet of a message it
\* cannot decrypt.
from_encoded_packet_lost(f, t) ==
    [Message(f.type, f.flags, f.uid, f.ttl,
             IF f.kind = "no_key" THEN ThisSender ELSE f.sender,
             0, f.kind = "decrypted", t)
       EXCEPT !.no_key = (f.kind = "no_key")]

\* Message.from_encoded on a decodable frame, at time t.  For a no_key
\* frame only type, flags, uid and ttl come from the frame; the sender
\* stays the default of Message.__init__.
from_encoded(f, t) ==
    [Message(f.type, f.flags, f.uid, f.ttl,
             IF f.kind = "no_key" THEN ThisSender ELSE f.sender,
             0, f.kind = "decrypted", t)
       EXCEPT !.no_key = (f.kind = "no_key"),
              !.packet = IF f.kind = "no_key" THEN f.tail ELSE ""]

\* ------------------------------------------------------------------ events
\* What the last operation was and what it gave to the outside: the
\* object it handled, the Ack and the relay it enqueued,
\* whether it showed a message to the user and appended it to the history,
\* whether a command called the reply callback of its caller.
Ev(op, res) ==
    [op |-> op, res |-> res, o |-> NoOid, ack |-> NoOid, relay |-> NoOid,
     surfaced |-> FALSE, journaled |-> FALSE, replied |-> FALSE,
     type |-> -1, uid |-> 0, frame |-> NoFrame]

\* The event of a reception also tells the type and the uid of the frame,
\* and the whole frame when the reception kept the message object.
RxEv(f, res) ==
    [Ev("rx", res) EXCEPT !.type = f.type, !.uid = f.uid,
                          !.frame = IF res \in {"data", "no_key"}
                                    THEN f ELSE NoFrame]

St(h, q, pa) ==
    [heap |-> h, q |-> q, pa |-> pa, dup |-> FALSE, ok |-> FALSE,
     ack |-> NoOid, relay |-> NoOid]

\* ------------------------------------------------------------------ History
\* The records an append is called with: two that fit a record and one
\* longer than recordsize.
HistData == {"a", "b"}
LongData == "long"

\* History.__init__: no file yet.  A file is the sequence of its records,
\* a missing file the empty sequence; files[1] is hist1 (file_id 0) and
\* files[2] is hist2 (file_id 1).  `appended' lists the records of the
\* successful appends, `ret' is what the last call returned or raised.
History(hl) ==
    [histlen |-> hl, files |-> << <<>>, <<>> >>, appended |-> <<>>,
     ret |-> [op |-> "", index |-> 0, count |-> 0, raised |-> FALSE,
              records |-> <<>>]]

\* History.get_file_size: records in the file, 0 for a missing one.
get_file_size(files, file_id) == Len(files[file_id + 1])

\* os.unlink of one of the two files.
unlink(files, file_id) == [files EXCEPT ![file_id + 1] = <<>>]

\* History.select_file: the file to append to, and the files as the call
\* leaves them (it unlinks hist2 when both have the same length).
select_file(h) ==
    LET len0 == get_file_size(h.files, 0)
        len1 == get_file_size(h.files, 1)
        file == IF len0 # 0 THEN 0 ELSE 1
        file_len == Max(len0, len1)
    IN IF len0 = len1
       THEN [file_id |-> 0, files |-> unlink(h.files, 1)]
       ELSE IF len0 = 0 \/ len1 = 0
       THEN [file_id |-> IF file_len <= h.histlen THEN file
                         ELSE (file + 1) % 2,
             files |-> h.files]
       ELSE [file_id |-> IF len0 < len1 THEN 0 ELSE 1, files |-> h.files]

\* History.append of a record that fits: the files after the call.
append(h, data) ==
    LET sel == select_file(h)
        file_id == sel.file_id
        files1 == IF get_file_size(sel.files, file_id) >= h.histlen
                  THEN unlink(sel.files, (file_id + 1) % 2)
                  ELSE sel.files
    IN [files1 EXCEPT ![file_id + 1] = Append(@, data)]

\* A variant of the first half of append that deletes the other file one
\* record early.
append_unlinks_early(h) ==
    LET sel == select_file(h)
        file_id == sel.file_id
    IN [file_id |-> file_id,
        files |-> IF get_file_size(sel.files, file_id) >= h.histlen - 1
                  THEN unlink(sel.files, (file_id + 1) % 2)
                  ELSE sel.files]

\* History.append up to the open() of the selected file: the file chosen
\* and the files as the deletions leave them.
append_unlinks(h) ==
    LET sel == select_file(h)
        file_id == sel.file_id
    IN [file_id |-> file_id,
        files |-> IF get_file_size(sel.files, file_id) >= h.histlen
                  THEN unlink(sel.files, (file_id + 1) % 2)
                  ELSE sel.files]

\* History.get_num_records.
get_num_records(h) == get_file_size(h.files, 0) + get_file_size(h.files, 1)

\* The inner loop of get_records on one file: open() raises for a missing
\* file and struct.unpack raises on the short read past the end of file.
read_records(file, seek, n) ==
    IF n <= 0 /\ (n = 0 \/ file # <<>>)
    THEN [raised |-> FALSE, records |-> <<>>]
    ELSE IF file = <<>> \/ seek + n > Len(file)
    THEN [raised |-> TRUE, records |-> <<>>]
    ELSE [raised |-> FALSE, records |-> SubSeq(file, seek + 1, seek + n)]

\* History.get_records(index, count).
get_records(h, index, count) ==
    LET max_records == get_num_records(h)
        index1 == IF index >= max_records THEN max_records - 1 ELSE index
        offset == max_records - index1 - 1
        len0 == get_file_size(h.files, 0)
        len1 == get_file_size(h.files, 1)
        files == IF len0 > len1 THEN <<0, 1>> ELSE <<1, 0>>
        lens == IF len0 > len1 THEN <<len0, len1>> ELSE <<len1, len0>>
        seek == <<offset, Max(offset - lens[1], 0)>>
        subcount0 == Max(Min(lens[1] - offset, count), 0)
        subcount == <<subcount0, count - subcount0>>
        part1 == read_records(h.files[files[1] + 1], seek[1], subcount[1])
        part2 == read_records(h.files[files[2] + 1], seek[2], subcount[2])
    IN IF max_records = 0
       THEN [raised |-> FALSE, records |-> <<>>]
       ELSE IF part1.raised \/ part2.raised
       THEN [raised |-> TRUE, records |-> <<>>]
       ELSE [raised |-> FALSE, records |-> part1.records \o part2.records]

\* ----------------------------------------------------------------- Keychain
\* Key names and secrets; Keychain.keys maps a name to sha16 of its secret,
\* a one-to-one image of the secret.
KeyNames == {"k1", "k2"}
Secrets == {"s1", "s2"}
Keychains ==
    UNION { [names -> Secrets] : names \in (SUBSET KeyNames) \ {{}} }

\* The four bytes urandom.getrandbits(8) gives, as one number.
IVs == {0, 5}

\* An encoded packet: the 7-byte header and what follows it, `len' bytes
\* that start as the bytes named `content' and go on with zero bytes.
Packet(type, flags, uid, ttl, content, len) ==
    [type |-> type, flags |-> flags, uid |-> uid, ttl |-> ttl,
     data |-> [content |-> content, len |-> len]]

NoPacket == Packet(-1, 0, 0, 0, "", 0)

Packets ==
    { Packet(MessageTypeData, fl, 1, default_ttl, "text", n) :
        fl \in {MessageFlagsEncr, MessageFlagsEncr + MessageFlagsRelayed},
        n \in 1..MaxPayload }

\* byte & (0xff ^ MessageFlagsRelayed).
clear_relayed(flags) ==
    IF HasFlag(flags, MessageFlagsRelayed) THEN flags - MessageFlagsRelayed
    ELSE flags

\* The value with one bit inverted.
flip_bit(v, bit) == IF HasFlag(v, bit) THEN v - bit ELSE v + bit

\* HMAC_SHA256(hmac_key, encr[:-10]) with the header as encrypt and decrypt
\* prepare it (Relayed cleared, ttl 0): the tuple of its inputs, no two of
\* which share a digest.
hmac_of(secret, e) ==
    [secret |-> secret, type |-> e.type, flags |-> clear_relayed(e.flags),
     uid |-> e.uid, iv |-> e.iv, ct |-> e.ct, flipped |-> FALSE]

\* sha16(encr[:11]) of the prepared header.
iv_of(e) ==
    [type |-> e.type, flags |-> clear_relayed(e.flags), uid |-> e.uid,
     iv |-> e.iv]

\* Keychain.encrypt(packet, key_name) with the random bytes iv: header, IV
\* field, AES-CBC of the zero-padded data, the first 10 bytes of the HMAC
\* with the padding length in the low 4 bits of the last one.
encrypt(keys, packet, key_name, iv) ==
    LET data_len == packet.data.len
        padding_len == (16 - (data_len % 16)) % 16
        e0 == [type |-> packet.type, flags |-> packet.flags,
               uid |-> packet.uid, ttl |-> packet.ttl, iv |-> iv]
        ct == [secret |-> keys[key_name], iv |-> iv_of(e0),
               content |-> packet.data.content,
               len |-> data_len + padding_len, flipped |-> FALSE]
        e1 == [type |-> packet.type, flags |-> packet.flags,
               uid |-> packet.uid, ttl |-> packet.ttl, iv |-> iv, ct |-> ct]
    IN [type |-> packet.type, flags |-> packet.flags, uid |-> packet.uid,
        ttl |-> packet.ttl, iv |-> iv, ct |-> ct,
        hm |-> hmac_of(keys[key_name], e1), padlen |-> padding_len]

\* cryptolib.aes(aes_key, 2, iv).decrypt(ct): the padded data when key, IV
\* and ciphertext are the ones of the encryption, other bytes otherwise.
aes_decrypt(secret, iv, ct) ==
    IF ct.secret = secret /\ ct.iv = iv /\ ~ct.flipped
    THEN [content |-> ct.content, len |-> ct.len]
    ELSE [content |-> "garbage", len |-> ct.len]

None == [ok |-> FALSE, key_name |-> "", packet |-> NoPacket]

\* A variant of decrypt that computes the HMAC over the header as received.
decrypt_header_as_received(keys, encr) ==
    LET matching == {n \in DOMAIN keys :
                       encr.hm = [hmac_of(keys[n], encr) EXCEPT
                                     !.flags = encr.flags]}
    IN IF 11 + encr.ct.len + 10 < 11 + 1 + 10 \/ matching = {}
       THEN {None}
       ELSE { [ok |-> TRUE, key_name |-> n,
               packet |-> Packet(encr.type, encr.flags, encr.uid, encr.ttl,
                                 aes_decrypt(keys[n], iv_of(encr),
                                             encr.ct).content,
                                 encr.ct.len - encr.padlen)] :
              n \in matching }

\* Keychain.decrypt(encr): what it may return; the keys are tried in the
\* order of the dictionary, which is any order.
decrypt(keys, encr) ==
    LET matching == {n \in DOMAIN keys : encr.hm = hmac_of(keys[n], encr)}
    IN IF 11 + encr.ct.len + 10 < 11 + 1 + 10 \/ matching = {}
       THEN {None}
       ELSE { [ok |-> TRUE, key_name |-> n,
               packet |-> Packet(encr.type, encr.flags, encr.uid, encr.ttl,
                                 aes_decrypt(keys[n], iv_of(encr),
                                             encr.ct).content,
                                 encr.ct.len - encr.padlen)] :
              n \in matching }

\* The places of a frame where one bit can be inverted: a field and the
\* bit, or 0 where the field is not a number.
FlipPlaces ==
    ({"type"} \X {1, 128}) \cup ({"flags"} \X {1, 2, 16, 128})
      \cup ({"uid"} \X {1, 1073741824}) \cup ({"ttl"} \X {1, 128})
      \cup ({"iv"} \X {1, 1073741824}) \cup ({"ct", "hm"} \X {0})
      \cup ({"padlen"} \X {1, 2, 4, 8})

\* The frame with the bit of place pl inverted.
flipped(encr, pl) ==
    IF pl[1] \in {"ct", "hm"}
    THEN [encr EXCEPT ![pl[1]].flipped = ~@]
    ELSE [encr EXCEPT ![pl[1]] = flip_bit(@, pl[2])]

\* No call yet.
NoCall ==
    [fn |-> "", via |-> "", keys |-> <<>>, key_name |-> "",
     packet |-> NoPacket, frame |-> <<>>, place |-> <<>>, dkeys |-> <<>>,
     ret |-> None]

\* ------------------------------------------------------- Message on the wire
\* Strings are sequences of code points below 2048, bytes objects are
\* sequences of numbers 0..255.

\* The fields of a Message object that encode() writes.
WireMessage(type, flags, uid, ttl, sender, nick, text, media_type, media_data, ack_type, seen) ==
    [type |-> type, flags |-> flags, uid |-> uid, ttl |-> ttl,
     sender |-> sender, nick |-> nick, text |-> text,
     media_type |-> media_type, media_data |-> media_data,
     ack_type |-> ack_type, seen |-> seen, no_key |-> FALSE]

\* Message(): the defaults of __init__ for what decode() does not fill.
DefaultMessage ==
    WireMessage(MessageTypeData, 0, 0, default_ttl, <<>>, <<>>, <<>>, 255,
                <<>>, 0, 0)

\* The well-formed messages the codec is given: nicks "", "alice", "\u00e9"
\* and "\u00e9a", texts "", "hi" and "\u00e9", sender AA:BB:CC:DD:EE:01,
\* uid 1 or 0x12345678.
WireMessages ==
    LET Nicks == {<<>>, <<97, 108, 105, 99, 101>>, <<233>>, <<233, 97>>}
        Texts == {<<>>, <<104, 105>>, <<233>>}
        sender == <<170, 187, 204, 221, 238, 1>>
        Uids == {1, 305419896}
    IN { WireMessage(MessageTypeData, fl, u, default_ttl, sender, n, t, 255,
                     <<>>, 0, 0) :
           fl \in {MessageFlagsNone, MessageFlagsPleaseRelay},
           u \in Uids, n \in Nicks, t \in Texts }
       \cup
       { WireMessage(MessageTypeData, MessageFlagsMedia, u, default_ttl,
                     sender, n, <<>>, mt, md, 0, 0) :
           u \in Uids, n \in Nicks, mt \in {0, 1},
           md \in {<<>>, <<0, 200>>} }
       \cup
       { WireMessage(MessageTypeAck, MessageFlagsNone, u, default_ttl, sender,
                     <<>>, <<>>, 255, <<>>, at, 0) :
           u \in Uids, at \in {MessageTypeData, MessageTypeHello} }
       \cup
       { WireMessage(MessageTypeHello, MessageFlagsNone, 0, default_ttl,
                     sender, n, t, 255, <<>>, 0, sn) :
           n \in Nicks, t \in Texts, sn \in {0, 3} }

\* The UTF-8 bytes of a string: what bytes + str appends in MicroPython.
RECURSIVE utf8_encode(_)
utf8_encode(str) ==
    IF str = <<>> THEN <<>>
    ELSE LET c == Head(str)
         IN (IF c < 128 THEN <<c>>
             ELSE <<192 + (c \div 64), 128 + (c % 64)>>)
            \o utf8_encode(Tail(str))

\* bytes.decode("utf-8"): the string, or <<-1>> where the bytes are not
\* UTF-8 and the call raises.
RECURSIVE utf8_decode(_)
utf8_decode(b) ==
    IF b = <<>> THEN <<>>
    ELSE IF b[1] < 128
    THEN LET rest == utf8_decode(Tail(b))
         IN IF rest = <<-1>> THEN rest ELSE <<b[1]>> \o rest
    ELSE IF b[1] >= 192 /\ b[1] < 224 /\ Len(b) >= 2
            /\ b[2] >= 128 /\ b[2] < 192
    THEN LET rest == utf8_decode(Tail(Tail(b)))
         IN IF rest = <<-1>> THEN rest
            ELSE <<(b[1] - 192) * 64 + (b[2] - 128)>> \o rest
    ELSE <<-1>>

\* Message.encode() of a message without key_name: len(self.nick) counts
\* the characters of the nick.
encode(m) ==
    LET uid == <<m.uid % 256, (m.uid \div 256) % 256,
                 (m.uid \div 65536) % 256, (m.uid \div 16777216) % 256>>
    IN IF m.type = MessageTypeData
       THEN <<m.type, m.flags>> \o uid \o <<m.ttl>> \o m.sender
              \o <<Len(m.nick)>> \o utf8_encode(m.nick)
              \o (IF HasFlag(m.flags, MessageFlagsMedia)
                  THEN <<m.media_type>> \o m.media_data
                  ELSE utf8_encode(m.text))
       ELSE IF m.type = MessageTypeAck
       THEN <<m.type, m.flags>> \o uid \o <<m.ack_type>> \o m.sender
       ELSE <<m.type, m.flags>> \o m.sender \o <<m.seen, Len(m.nick)>>
              \o utf8_encode(m.nick) \o utf8_encode(m.text)

\* Message.from_encoded(encoded, None): Message() filled by decode(), with
\* ok FALSE when decode() fails or raises. The nick is the nick_len bytes
\* after the header.
decode(msg) ==
    LET slice(from, to) == SubSeq(msg, from + 1, Min(to, Len(msg)))
        uid == msg[3] + msg[4] * 256 + msg[5] * 65536 + msg[6] * 16777216
        False == [ok |-> FALSE, m |-> DefaultMessage]
        head == [DefaultMessage EXCEPT !.type = msg[1], !.flags = msg[2]]
    IN IF Len(msg) < 2 THEN False
       ELSE IF msg[1] = MessageTypeData /\ HasFlag(msg[2], MessageFlagsEncr)
       THEN IF Len(msg) < 7 THEN False
            ELSE [ok |-> TRUE,
                  m |-> [head EXCEPT !.uid = uid, !.ttl = msg[7],
                                     !.no_key = TRUE]]
       ELSE IF msg[1] = MessageTypeData
       THEN LET nick_len == msg[14]
                nick == utf8_decode(slice(14, 14 + nick_len))
                rest == slice(14 + nick_len, Len(msg))
                m1 == [head EXCEPT !.uid = uid, !.ttl = msg[7],
                                   !.sender = slice(7, 13), !.nick = nick]
            IN IF Len(msg) < 14 \/ nick = <<-1>> THEN False
               ELSE IF HasFlag(msg[2], MessageFlagsMedia)
               THEN IF rest = <<>> THEN False
                    ELSE [ok |-> TRUE,
                          m |-> [m1 EXCEPT !.media_type = rest[1],
                                           !.media_data = Tail(rest)]]
               ELSE IF utf8_decode(rest) = <<-1>> THEN False
               ELSE [ok |-> TRUE,
                     m |-> [m1 EXCEPT !.text = utf8_decode(rest)]]
       ELSE IF msg[1] = MessageTypeAck
       THEN IF Len(msg) < 13 THEN False
            ELSE [ok |-> TRUE,
                  m |-> [head EXCEPT !.uid = uid, !.ack_type = msg[7],
                                     !.sender = slice(7, 13)]]
       ELSE IF msg[1] = MessageTypeHello
       THEN LET nick_len == msg[10]
                nick == utf8_decode(slice(10, 10 + nick_len))
                text == utf8_decode(slice(10 + nick_len, Len(msg)))
            IN IF Len(msg) < 10 \/ nick = <<-1>> \/ text = <<-1>> THEN False
               ELSE [ok |-> TRUE,
                     m |-> [head EXCEPT !.sender = slice(2, 8),
                                        !.seen = msg[9], !.nick = nick,
                                        !.text = text]]
       ELSE False

\* ------------------------------------------------------ CommandsController
\* int(s) of the argument strings the model types: the strings not listed
\* raise ValueError.
Numerals ==
    [s \in {"0", "5", "6", "13", "7800"} |->
       CASE s = "0" -> 0 [] s = "5" -> 5 [] s = "6" -> 6 [] s = "13" -> 13
         [] s = "7800" -> 7800]

LoRaPresets ==
    [p \in {"superfast", "veryfast", "fast", "mid", "far", "veryfar",
            "superfar"} |->
       CASE p = "superfast" -> [lora_sp |-> 7, lora_cr |-> 5, lora_bw |-> 500000]
         [] p = "veryfast" -> [lora_sp |-> 8, lora_cr |-> 6, lora_bw |-> 250000]
         [] p = "fast" -> [lora_sp |-> 9, lora_cr |-> 8, lora_bw |-> 250000]
         [] p = "mid" -> [lora_sp |-> 10, lora_cr |-> 8, lora_bw |-> 250000]
         [] p = "far" -> [lora_sp |-> 11, lora_cr |-> 8, lora_bw |-> 125000]
         [] p = "veryfar" -> [lora_sp |-> 12, lora_cr |-> 8, lora_bw |-> 125000]
         [] p = "superfar" -> [lora_sp |-> 12, lora_cr |-> 8, lora_bw |-> 62500]]

\* What a cmd_ method did: the configuration it leaves, the number of
\* calls of send_reply, whether it called lora_reset_and_configure, and
\* what it returned ("True", "False", "None") or "raised".
CmdResult(cfg, replies, reconfigured, ret) ==
    [config |-> cfg, replies |-> replies, reconfigured |-> reconfigured,
     ret |-> ret]

\* The value a try: int(argv[1]) except: 0 gives; argv[1] of the source is
\* argv[2] here.
int_or_zero(argv) ==
    IF Len(argv) >= 2 /\ argv[2] \in DOMAIN Numerals THEN Numerals[argv[2]]
    ELSE 0

cmd_nick(cfg, argv) ==
    IF Len(argv) > 2 THEN CmdResult(cfg, 0, FALSE, "False")
    ELSE IF Len(argv) = 2
    THEN CmdResult([cfg EXCEPT !.nick = argv[2]], 1, FALSE, "None")
    ELSE CmdResult(cfg, 1, FALSE, "None")

cmd_preset(cfg, argv) ==
    IF Len(argv) # 2 THEN CmdResult(cfg, 0, FALSE, "False")
    ELSE IF argv[2] \in DOMAIN LoRaPresets
    THEN CmdResult([cfg EXCEPT !.lora_sp = LoRaPresets[argv[2]].lora_sp,
                               !.lora_cr = LoRaPresets[argv[2]].lora_cr,
                               !.lora_bw = LoRaPresets[argv[2]].lora_bw],
                   1, TRUE, "True")
    ELSE CmdResult(cfg, 1, FALSE, "True")

cmd_pw(cfg, argv) ==
    LET txpower == int_or_zero(argv)
    IN IF Len(argv) > 2 THEN CmdResult(cfg, 0, FALSE, "False")
       ELSE IF Len(argv) = 2 /\ (txpower < 2 \/ txpower > 20)
       THEN CmdResult(cfg, 2, FALSE, "True")
       ELSE IF Len(argv) = 2
       THEN CmdResult([cfg EXCEPT !.lora_pw = txpower], 1, TRUE, "True")
       ELSE CmdResult(cfg, 1, FALSE, "True")

\* A variant of cmd_sp that lets spreading 13 through.
cmd_sp_up_to_13(cfg, argv) ==
    LET spreading == int_or_zero(argv)
    IN IF Len(argv) > 2 THEN CmdResult(cfg, 0, FALSE, "False")
       ELSE IF Len(argv) = 2 /\ (spreading < 6 \/ spreading > 13)
       THEN CmdResult(cfg, 2, FALSE, "True")
       ELSE IF Len(argv) = 2
       THEN CmdResult([cfg EXCEPT !.lora_sp = spreading], 1, TRUE, "True")
       ELSE CmdResult(cfg, 1, FALSE, "True")

cmd_sp(cfg, argv) ==
    LET spreading == int_or_zero(argv)
    IN IF Len(argv) > 2 THEN CmdResult(cfg, 0, FALSE, "False")
       ELSE IF Len(argv) = 2 /\ (spreading < 6 \/ spreading > 12)
       THEN CmdResult(cfg, 2, FALSE, "True")
       ELSE IF Len(argv) = 2
       THEN CmdResult([cfg EXCEPT !.lora_sp = spreading], 1, TRUE, "True")
       ELSE CmdResult(cfg, 1, FALSE, "True")

cmd_cr(cfg, argv) ==
    LET cr == int_or_zero(argv)
    IN IF Len(argv) > 2 THEN CmdResult(cfg, 0, FALSE, "False")
       ELSE IF Len(argv) = 2 /\ (cr < 5 \/ cr > 8)
       THEN CmdResult(cfg, 2, FALSE, "True")
       ELSE IF Len(argv) = 2
       THEN CmdResult([cfg EXCEPT !.lora_cr = cr], 1, TRUE, "True")
       ELSE CmdResult(cfg, 1, FALSE, "True")

cmd_bw(cfg, argv) ==
    LET valid_bw_values == {7800, 10400, 15600, 20800, 31250, 41700, 62500,
                            125000, 250000, 500000}
        bw == int_or_zero(argv)
    IN IF Len(argv) > 2 THEN CmdResult(cfg, 0, FALSE, "False")
       ELSE IF Len(argv) = 2 /\ bw \notin valid_bw_values
       THEN CmdResult(cfg, 2, FALSE, "True")
       ELSE IF Len(argv) = 2
       THEN CmdResult([cfg EXCEPT !.lora_bw = bw], 1, TRUE, "True")
       ELSE CmdResult(cfg, 1, FALSE, "True")

\* cmd_last: int(argv[1]) is not guarded; one reply for each record that
\* the journal returns.
cmd_last(cfg, argv, h) ==
    LET count == IF Len(argv) = 2 THEN Numerals[argv[2]] ELSE 10
        msglist == get_records(h, count - 1, count)
    IN IF Len(argv) > 2 THEN CmdResult(cfg, 0, FALSE, "False")
       ELSE IF Len(argv) = 2 /\ argv[2] \notin DOMAIN Numerals
       THEN CmdResult(cfg, 0, FALSE, "raised")
       ELSE IF count < 1 THEN CmdResult(cfg, 1, FALSE, "True")
       ELSE IF msglist.raised THEN CmdResult(cfg, 0, FALSE, "raised")
       ELSE CmdResult(cfg, Len(msglist.records), FALSE, "True")

\* exec_user_command of a line that starts with '!', split into argv: the
\* result of the method, with the reply for an unknown command or for a
\* method that returned False.
exec_user_command(cfg, argv, h) ==
    LET r == CASE argv[1] = "nick" -> cmd_nick(cfg, argv)
               [] argv[1] = "preset" -> cmd_preset(cfg, argv)
               [] argv[1] = "pw" -> cmd_pw(cfg, argv)
               [] argv[1] = "sp" -> cmd_sp(cfg, argv)
               [] argv[1] = "cr" -> cmd_cr(cfg, argv)
               [] argv[1] = "bw" -> cmd_bw(cfg, argv)
               [] argv[1] = "last" -> cmd_last(cfg, argv, h)
               [] OTHER -> CmdResult(cfg, 1, FALSE, "unknown")
    IN IF r.ret = "False" THEN [r EXCEPT !.replies = @ + 1] ELSE r

\* ----------------------------------------------------------------- Init
\* Everything but the configuration and the length limit of the queue.
InitEngine ==
    /\ now = 0
    /\ heap = [o \in OIDs |-> FreeCell]
    /\ send_queue = <<>>
    /\ send_later = <<>>
    /\ pc = "idle"
    /\ processed_a = {}
    /\ processed_b = {}
    /\ neighbors = <<>>
    /\ lora = [receiving |-> TRUE, tx_in_progress |-> FALSE,
               packet_on_air |-> 0, packet_on_air_type |-> POAPreamble]
    /\ duty_cycle = [slots |-> [i \in 0..(slots_num - 1) |->
                                   [txtime |-> 0, epoch |-> -1]],
                     tx_start_time |-> -1]
    /\ on_air = NoOid
    /\ tmp = <<>>
    /\ call = NoCall
    /\ ev = Ev("init", "")

\* The defaults of FreakWAN.__init__.
Init ==
    /\ InitEngine
    /\ send_queue_max = QueueMax
    /\ config = [quiet |-> FALSE, prom |-> FALSE, check_crc |-> TRUE,
                 automsg |-> TRUE]
    /\ hist = History(histlen)

\* ------------------------------------------------- receive_lora_packet
\* The message object receive_lora_packet works on: the decoded frame with
\* the rssi of the reception, and the BadCRC flag when the CRC was wrong.
received(f) ==
    [from_encoded(f, now) EXCEPT
       !.rssi = f.rssi,
       !.flags = IF f.bad_crc THEN SetFlag(@, MessageFlagsBadCRC) ELSE @]

\* The neighbors dictionary after a Hello of sender s at time t.
hello_upsert(nb, s, t) ==
    [x \in (DOMAIN nb) \cup {s} |-> IF x = s THEN t ELSE nb[x]]

\* receive_lora_packet for a Data frame we decoded, object in cell o, Ack
\* object (when one is made) in cell a, relay delay d.
\* The value of mark_as_processed(m) for the message just decoded, which
\* nothing references yet: it is looked at in a cell beside the heap, so a
\* message that is dropped takes no cell.
rx_duplicate(f) ==
    LET h == [x \in OIDs \cup {NoOid} |->
                IF x = NoOid THEN received(f) ELSE heap[x]]
    IN mark_as_processed(St(h, send_queue, processed_a), processed_b,
                         NoOid, config.prom).dup

\* The Data branch for a message that is not a duplicate.
rx_data(f, o, a, d) ==
    LET m == received(f)
        st0 == St([heap EXCEPT ![o] = m], send_queue, processed_a)
        st1 == mark_as_processed(st0, processed_b, o, config.prom)
        st2 == send_ack_if_needed(st1, processed_b, o, a, config.quiet,
                                  config.prom, now)
        st3 == relay_if_needed(st2, processed_b, o, d, config.quiet,
                               config.prom, now)
        refresh == ~HasFlag(m.flags, MessageFlagsRelayed)
                     /\ m.sender \in DOMAIN neighbors
    IN /\ ev' = [RxEv(f, "data") EXCEPT !.o = o,
                   !.ack = st3.ack, !.relay = st3.relay,
                   !.surfaced = TRUE, !.journaled = encode_ok(m)]
       /\ send_queue' = st3.q
       /\ processed_a' = st3.pa
       /\ heap' = Collect(st3.heap, st3.q, send_later, st3.pa,
                          processed_b, on_air)
       /\ neighbors' = IF refresh
                       THEN [neighbors EXCEPT ![m.sender] = now]
                       ELSE neighbors

\* The no_key branch: dedup, then relay only.
rx_no_key(f, o, d) ==
    LET m == received(f)
        st0 == St([heap EXCEPT ![o] = m], send_queue, processed_a)
        st1 == mark_as_processed(st0, processed_b, o, config.prom)
        st3 == relay_if_needed(st1, processed_b, o, d, config.quiet,
                               config.prom, now)
    IN /\ ev' = [RxEv(f, "no_key") EXCEPT !.o = o, !.relay = st3.relay]
       /\ send_queue' = st3.q
       /\ processed_a' = st3.pa
       /\ heap' = Collect(st3.heap, st3.q, send_later, st3.pa,
                          processed_b, on_air)
       /\ UNCHANGED neighbors

\* A variant of the Ack branch that also puts the acknowledged message in
\* the send queue again.
rx_ack_requeues(f) ==
    LET about == get_processed_message(heap, processed_a, processed_b, f.uid)
    IN IF about = NoOid
       THEN /\ ev' = RxEv(f, "ack_unknown")
            /\ UNCHANGED <<heap, send_queue, processed_a, neighbors>>
       ELSE /\ ev' = [RxEv(f, "ack") EXCEPT !.o = about]
            /\ heap' = [heap EXCEPT ![about].acks = @ \cup {f.sender}]
            /\ send_queue' = Append(send_queue, about)
            /\ UNCHANGED <<processed_a, neighbors>>

\* The Ack branch: record the sender in the ack-set of the cached message
\* and compare the sizes of the ack-set and of the neighbors table.
rx_ack(f) ==
    LET about == get_processed_message(heap, processed_a, processed_b, f.uid)
        acks == heap[about].acks \cup {f.sender}
        cancel == Cardinality(DOMAIN neighbors) # 0
                    /\ Cardinality(acks) = Cardinality(DOMAIN neighbors)
    IN IF about = NoOid
       THEN /\ ev' = RxEv(f, "ack_unknown")
            /\ UNCHANGED <<heap, send_queue, processed_a, neighbors>>
       ELSE /\ ev' = [RxEv(f, "ack") EXCEPT !.o = about]
            /\ heap' = [heap EXCEPT
                          ![about].acks = acks,
                          ![about].send_canceled = IF cancel THEN TRUE ELSE @]
            /\ UNCHANGED <<send_queue, processed_a, neighbors>>

\* The Hello branch: upsert, then drop one entry when over max_neighbors.
rx_hello(f) ==
    LET nb == hello_upsert(neighbors, f.sender, now)
    IN /\ ev' = RxEv(f, IF f.sender \in DOMAIN neighbors
                         THEN "hello" ELSE "hello_new")
       /\ IF Cardinality(DOMAIN nb) > max_neighbors
          THEN \E k \in DOMAIN nb :
                  neighbors' = [x \in (DOMAIN nb) \ {k} |-> nb[x]]
          ELSE neighbors' = nb
       /\ UNCHANGED <<heap, send_queue, processed_a>>

\* The values urandom.randint(0, relay_max_delay) can give in the
\* send_asynchronously call of relay_if_needed; the call is made only when
\* the gates of relay_if_needed let the message through.
relay_delays(m) ==
    IF relay_allowed(m, config.quiet) THEN 0..relay_max_delay ELSE {0}

\* SX1262.txrxdone for RxDone/CrcErr, which calls receive_lora_packet.
ReceiveLoraPacket(f) ==
    /\ lora.receiving /\ ~lora.tx_in_progress
    /\ lora' = [lora EXCEPT !.packet_on_air = 0]
    /\ IF config.check_crc /\ f.bad_crc
       THEN /\ ev' = RxEv(f, "bad_crc")
            /\ UNCHANGED <<heap, send_queue, processed_a, neighbors>>
       ELSE IF f.kind = "garbage"
       THEN /\ ev' = [RxEv(f, "undecoded") EXCEPT !.surfaced = config.prom]
            /\ UNCHANGED <<heap, send_queue, processed_a, neighbors>>
       ELSE IF (f.kind = "no_key" \/ f.type = MessageTypeData)
                 /\ rx_duplicate(f)
       THEN /\ ev' = RxEv(f, "dup")
            /\ UNCHANGED <<heap, send_queue, processed_a, neighbors>>
       ELSE IF f.kind = "no_key"
       THEN /\ FirstFree(heap) # NoOid
            /\ \E d \in relay_delays(received(f)) :
                  rx_no_key(f, FirstFree(heap), d)
       ELSE IF f.type = MessageTypeData
       THEN /\ FirstFree(heap) # NoOid
            /\ SecondFree(heap) # NoOid
            /\ \E d \in relay_delays(received(f)) :
                  rx_data(f, FirstFree(heap), SecondFree(heap), d)
       ELSE IF f.type = MessageTypeAck
       THEN rx_ack(f)
       ELSE rx_hello(f)
    /\ UNCHANGED <<call, tmp, hist, send_queue_max, now, config, send_later, pc, processed_b, duty_cycle,
                   on_air>>

\* ------------------------------------------------------------ SX1262 driver
\* modem_is_receiving_packet(): the driver state after the call (an aged
\* packet_on_air mark is cleared); the value returned is
\* packet_on_air != False of that state, and a time stamp of 0 equals False.
modem_is_receiving_packet(l, t) ==
    IF l.packet_on_air # 0
    THEN LET timeout == IF l.packet_on_air_type = POAPreamble
                        THEN poa_preamble_timeout ELSE poa_header_timeout
             age == t - l.packet_on_air
         IN IF age > timeout THEN [l EXCEPT !.packet_on_air = 0] ELSE l
    ELSE l

\* txrxdone for PreambleDetected / HeaderValid.
PacketOnAir(type) ==
    /\ lora.receiving /\ ~lora.tx_in_progress
    /\ lora' = [lora EXCEPT !.packet_on_air = now,
                            !.packet_on_air_type = type]
    /\ ev' = Ev("poa", "")
    /\ UNCHANGED <<call, tmp, hist, send_queue_max, now, config, heap, send_queue, send_later, pc,
                   processed_a, processed_b, neighbors, duty_cycle, on_air>>

\* SX1262.reset then FreakWAN.lora_reset_and_configure: begin() resets both
\* flags, receive() is called again when the radio was receiving.
lora_reset_and_configure(l) ==
    LET was_receiving == l.receiving
    IN [l EXCEPT !.receiving = was_receiving, !.tx_in_progress = FALSE]

lora_receive(l) == [l EXCEPT !.receiving = TRUE]

lora_send(l) == [l EXCEPT !.tx_in_progress = TRUE]

\* A TxDone interrupt that leaves tx_in_progress set.
LoraTxDoneFlagStays ==
    /\ lora.tx_in_progress
    /\ duty_cycle' = end_tx(duty_cycle, now)
    /\ lora' = lora
    /\ on_air' = NoOid
    /\ heap' = Collect(heap, send_queue, send_later, processed_a,
                       processed_b, NoOid)
    /\ ev' = [Ev("tx_done", "") EXCEPT !.o = on_air]
    /\ UNCHANGED <<call, tmp, hist, send_queue_max, now, config, send_queue, send_later, pc, processed_a,
                   processed_b, neighbors>>

\* txrxdone for TxDone: lora_tx_done (end_tx), back to receive, flag off.
LoraTxDone ==
    /\ lora.tx_in_progress
    /\ duty_cycle' = end_tx(duty_cycle, now)
    /\ lora' = [lora EXCEPT !.tx_in_progress = FALSE]
    /\ on_air' = NoOid
    /\ heap' = Collect(heap, send_queue, send_later, processed_a,
                       processed_b, NoOid)
    /\ ev' = [Ev("tx_done", "") EXCEPT !.o = on_air]
    /\ UNCHANGED <<call, tmp, hist, send_queue_max, now, config, send_queue, send_later, pc, processed_a,
                   processed_b, neighbors>>

\* ------------------------------------------------------------- cron: drain
\* send_messages_in_queue without its first statement.
DrainStartNoListen ==
    /\ pc = "idle"
    /\ lora' = modem_is_receiving_packet(lora, now)
    /\ pc' = "drain"
    /\ ev' = Ev("drain_start", "go")
    /\ send_later' = <<>>
    /\ UNCHANGED <<call, tmp, hist, send_queue_max, now, config, heap, send_queue, processed_a, processed_b,
                   neighbors, duty_cycle, on_air>>

\* First statement of send_messages_in_queue: listen before talk.
DrainStart ==
    /\ pc = "idle"
    /\ LET l1 == modem_is_receiving_packet(lora, now)
       IN /\ lora' = l1
          /\ IF l1.packet_on_air # 0
             THEN /\ pc' = "evict"
                  /\ ev' = Ev("drain_start", "lbt")
             ELSE /\ pc' = "drain"
                  /\ ev' = Ev("drain_start", "go")
    /\ send_later' = <<>>
    /\ UNCHANGED <<call, tmp, hist, send_queue_max, now, config, heap, send_queue, processed_a, processed_b,
                   neighbors, duty_cycle, on_air>>

\* The test with >= in place of >.
is_due_when_reached(m, t) == t - m.send_time >= 0

\* The message is due: time.ticks_diff(time.ticks_ms(), m.send_time) > 0.
is_due(m, t) == t - m.send_time > 0

\* The busy branch without the put-back of the popped message.
drain_busy_no_put_back(o) ==
    LET fire == get_current_tx_time(duty_cycle, now) > TX_WATCHDOG_TIME
    IN /\ lora' = IF fire
                  THEN lora_receive(lora_reset_and_configure(lora))
                  ELSE lora
       /\ send_queue' = Tail(send_queue)
       /\ pc' = "drain_end"
       /\ on_air' = IF fire THEN NoOid ELSE on_air
       /\ heap' = Collect(heap, Tail(send_queue), send_later,
                          processed_a, processed_b,
                          IF fire THEN NoOid ELSE on_air)
       /\ ev' = [Ev("drain", IF fire THEN "watchdog" ELSE "busy")
                   EXCEPT !.o = o]
       /\ UNCHANGED <<send_later, duty_cycle>>

\* The radio is transmitting: watchdog check, put the message back, break.
drain_busy(o) ==
    LET fire == get_current_tx_time(duty_cycle, now) > TX_WATCHDOG_TIME
    IN /\ lora' = IF fire
                  THEN lora_receive(lora_reset_and_configure(lora))
                  ELSE lora
       /\ send_queue' = <<o>> \o Tail(send_queue)
       /\ pc' = "drain_end"
       /\ on_air' = IF fire THEN NoOid ELSE on_air
       /\ heap' = Collect(heap, <<o>> \o Tail(send_queue), send_later,
                          processed_a, processed_b,
                          IF fire THEN NoOid ELSE on_air)
       /\ ev' = [Ev("drain", IF fire THEN "watchdog" ELSE "busy")
                   EXCEPT !.o = o]
       /\ UNCHANGED <<send_later, duty_cycle>>

\* The free-radio branch without the send_canceled tests.
drain_send_canceled_too(o, d) ==
    LET m == heap[o]
        do_send == encode_ok(m)
        m1 == [m EXCEPT !.sent = IF do_send THEN TRUE ELSE @,
                        !.txs = IF do_send THEN @ + 1 ELSE @]
        again == m1.num_tx > 1 /\ ~config.quiet
        m2 == IF again
              THEN [m1 EXCEPT !.num_tx = @ - 1, !.send_time = now + d]
              ELSE m1
        q1 == Tail(send_queue)
        sl1 == IF again THEN Append(send_later, o) ELSE send_later
        oa1 == IF do_send THEN o ELSE on_air
    IN /\ lora' = IF do_send THEN lora_send(lora) ELSE lora
       /\ duty_cycle' = IF do_send THEN start_tx(duty_cycle, now)
                        ELSE duty_cycle
       /\ on_air' = oa1
       /\ send_queue' = q1
       /\ send_later' = sl1
       /\ heap' = Collect([heap EXCEPT ![o] = m2], q1, sl1, processed_a,
                          processed_b, oa1)
       /\ pc' = "drain"
       /\ ev' = [Ev("drain", IF do_send THEN "sent" ELSE "skipped")
                   EXCEPT !.o = o]

\* The free-radio branch without the decrement of num_tx.
drain_send_no_decrement(o, d) ==
    LET m == heap[o]
        do_send == (m.send_canceled = FALSE) /\ encode_ok(m)
        m1 == [m EXCEPT !.send_canceled =
                            IF m.send_canceled = FALSE /\ ~encode_ok(m)
                            THEN TRUE ELSE @,
                        !.sent = IF do_send THEN TRUE ELSE @,
                        !.txs = IF do_send THEN @ + 1 ELSE @]
        again == m1.num_tx > 1 /\ m1.send_canceled = FALSE /\ ~config.quiet
        m2 == IF again
              THEN [m1 EXCEPT !.send_time = now + d]
              ELSE m1
        q1 == Tail(send_queue)
        sl1 == IF again THEN Append(send_later, o) ELSE send_later
        oa1 == IF do_send THEN o ELSE on_air
    IN /\ lora' = IF do_send THEN lora_send(lora) ELSE lora
       /\ duty_cycle' = IF do_send THEN start_tx(duty_cycle, now)
                        ELSE duty_cycle
       /\ on_air' = oa1
       /\ send_queue' = q1
       /\ send_later' = sl1
       /\ heap' = Collect([heap EXCEPT ![o] = m2], q1, sl1, processed_a,
                          processed_b, oa1)
       /\ pc' = "drain"
       /\ ev' = [Ev("drain", IF do_send THEN "sent" ELSE "skipped")
                   EXCEPT !.o = o]

\* The radio is free: send unless canceled, then re-schedule or drop.
\* d is the value of urandom.randint(TX_AGAIN_MIN_DELAY,TX_AGAIN_MAX_DELAY).
drain_send(o, d) ==
    LET m == heap[o]
        do_send == (m.send_canceled = FALSE) /\ encode_ok(m)
        m1 == [m EXCEPT !.send_canceled =
                            IF m.send_canceled = FALSE /\ ~encode_ok(m)
                            THEN TRUE ELSE @,
                        !.sent = IF do_send THEN TRUE ELSE @,
                        !.txs = IF do_send THEN @ + 1 ELSE @]
        again == m1.num_tx > 1 /\ m1.send_canceled = FALSE /\ ~config.quiet
        m2 == IF again
              THEN [m1 EXCEPT !.num_tx = @ - 1, !.send_time = now + d]
              ELSE m1
        q1 == Tail(send_queue)
        sl1 == IF again THEN Append(send_later, o) ELSE send_later
        oa1 == IF do_send THEN o ELSE on_air
    IN /\ lora' = IF do_send THEN lora_send(lora) ELSE lora
       /\ duty_cycle' = IF do_send THEN start_tx(duty_cycle, now)
                        ELSE duty_cycle
       /\ on_air' = oa1
       /\ send_queue' = q1
       /\ send_later' = sl1
       /\ heap' = Collect([heap EXCEPT ![o] = m2], q1, sl1, processed_a,
                          processed_b, oa1)
       /\ pc' = "drain"
       /\ ev' = [Ev("drain", IF do_send THEN "sent" ELSE "skipped")
                   EXCEPT !.o = o]

\* The loop iteration without the tx_in_progress test.
DrainIterNoBusyTest ==
    /\ pc = "drain"
    /\ send_queue # <<>>
    /\ LET o == Head(send_queue)
       IN IF is_due(heap[o], now)
          THEN \E d \in TX_AGAIN_MIN_DELAY..TX_AGAIN_MAX_DELAY :
                  drain_send(o, d)
          ELSE /\ send_queue' = Tail(send_queue)
               /\ send_later' = Append(send_later, o)
               /\ pc' = "drain"
               /\ ev' = [Ev("drain", "later") EXCEPT !.o = o]
               /\ UNCHANGED <<heap, lora, duty_cycle, on_air>>
    /\ UNCHANGED <<call, tmp, hist, send_queue_max, now, config, processed_a, processed_b, neighbors>>

\* One iteration of the while loop of send_messages_in_queue.
DrainIter ==
    /\ pc = "drain"
    /\ send_queue # <<>>
    /\ LET o == Head(send_queue)
       IN IF is_due(heap[o], now)
          THEN IF lora.tx_in_progress
               THEN drain_busy(o)
               ELSE \E d \in TX_AGAIN_MIN_DELAY..TX_AGAIN_MAX_DELAY :
                       drain_send(o, d)
          ELSE /\ send_queue' = Tail(send_queue)
               /\ send_later' = Append(send_later, o)
               /\ pc' = "drain"
               /\ ev' = [Ev("drain", "later") EXCEPT !.o = o]
               /\ UNCHANGED <<heap, lora, duty_cycle, on_air>>
    /\ UNCHANGED <<call, tmp, hist, send_queue_max, now, config, processed_a, processed_b, neighbors>>

\* After the loop: self.send_queue = self.send_queue + send_later.
DrainEnd ==
    /\ \/ pc = "drain_end"
       \/ pc = "drain" /\ send_queue = <<>>
    /\ send_queue' = send_queue \o send_later
    /\ send_later' = <<>>
    /\ pc' = "evict"
    /\ ev' = Ev("drain_end", "")
    /\ UNCHANGED <<call, tmp, hist, send_queue_max, now, config, heap, processed_a, processed_b, neighbors,
                   lora, duty_cycle, on_air>>

\* ---------------------------------------------- cron: evict_processed_cache
\* A variant of the scan that keeps only the entries younger than maxage.
RECURSIVE evict_scan_strict(_, _, _, _, _)
evict_scan_strict(h, a, b, k, t) ==
    IF k = 0 \/ a = {}
    THEN {[a |-> a, b |-> b]}
    ELSE UNION { evict_scan_strict(h, a \ {o},
                                   IF t - h[o].ctime < evict_maxage
                                   THEN b \cup {o} ELSE b,
                                   k - 1, t) : o \in a }

\* The pairs (processed_a, processed_b) the scan loop can end with after at
\* most k popitem() calls; popitem takes any entry.
RECURSIVE evict_scan(_, _, _, _, _)
evict_scan(h, a, b, k, t) ==
    IF k = 0 \/ a = {}
    THEN {[a |-> a, b |-> b]}
    ELSE UNION { evict_scan(h, a \ {o},
                            IF t - h[o].ctime <= evict_maxage
                            THEN b \cup {o} ELSE b,
                            k - 1, t) : o \in a }

EvictProcessedCache ==
    /\ pc = "evict"
    /\ \E r \in evict_scan(heap, processed_a, processed_b, evict_count, now) :
          LET swap == r.a = {} /\ r.b # {}
              pa1 == IF swap THEN r.b ELSE r.a
              pb1 == IF swap THEN {} ELSE r.b
          IN /\ processed_a' = pa1
             /\ processed_b' = pb1
             /\ heap' = Collect(heap, send_queue, send_later, pa1, pb1,
                                on_air)
    /\ pc' = "idle"
    /\ ev' = Ev("evict", "")
    /\ UNCHANGED <<call, tmp, hist, send_queue_max, now, config, send_queue, send_later, neighbors, lora,
                   duty_cycle, on_air>>

\* ------------------------------------------------------ other tasks, user
\* One iteration of send_hello_message: evict the neighbors not refreshed
\* for hello_msg_max_age, then enqueue a Hello unless quiet.
fresh_neighbors(nb, t) ==
    [x \in {y \in DOMAIN nb : t - nb[y] <= hello_msg_max_age} |-> nb[x]]

HelloTask ==
    /\ pc = "idle"
    /\ LET nb == fresh_neighbors(neighbors, now)
           o == FirstFree(heap)
           msg == Message(MessageTypeHello, 0, 0, default_ttl, ThisSender,
                          Cardinality(DOMAIN nb), FALSE, now)
           st1 == send_asynchronously(
                      St([heap EXCEPT ![o] = msg], send_queue, processed_a),
                      processed_b, o, 0, 1, FALSE, config.prom, now)
       IN /\ neighbors' = nb
          /\ IF ~config.quiet
             THEN /\ o # NoOid
                  /\ send_queue' = st1.q
                  /\ heap' = Collect(st1.heap, st1.q, send_later,
                                     processed_a, processed_b, on_air)
                  /\ ev' = [Ev("hello", IF st1.ok THEN "queued" ELSE "full")
                              EXCEPT !.o = IF st1.ok THEN o ELSE NoOid]
             ELSE /\ ev' = Ev("hello", "quiet")
                  /\ UNCHANGED <<send_queue, heap>>
    /\ UNCHANGED <<call, tmp, hist, send_queue_max, now, config, send_later, pc, processed_a, processed_b,
                   lora, duty_cycle, on_air>>

\* -------------------------------------------- send_hello_message, stepwise
\* The eviction loop of send_hello_message step by step, for the radio
\* interrupts that fall inside it: new = {}.
HelloEvictStart ==
    /\ pc = "idle"
    /\ pc' = "hello_evict"
    /\ tmp' = <<>>
    /\ ev' = Ev("hello_evict", "start")
    /\ UNCHANGED <<call, hist, send_queue_max, now, config, heap, send_queue, send_later,
                   processed_a, processed_b, neighbors, lora, duty_cycle, on_air>>

\* One iteration: popitem() takes any entry, which goes to new unless it
\* is older than hello_msg_max_age.
HelloEvictIter ==
    /\ pc = "hello_evict"
    /\ neighbors # <<>>
    /\ \E k \in DOMAIN neighbors :
          /\ neighbors' = [x \in (DOMAIN neighbors) \ {k} |-> neighbors[x]]
          /\ tmp' = IF now - neighbors[k] <= hello_msg_max_age
                    THEN hello_upsert(tmp, k, neighbors[k])
                    ELSE tmp
    /\ ev' = Ev("hello_evict", "iter")
    /\ UNCHANGED <<call, hist, send_queue_max, now, config, heap, send_queue, send_later, pc,
                   processed_a, processed_b, lora, duty_cycle, on_air>>

\* The loop test found the dictionary empty.
HelloEvictExit ==
    /\ pc = "hello_evict"
    /\ neighbors = <<>>
    /\ pc' = "hello_assign"
    /\ ev' = Ev("hello_evict", "exit")
    /\ UNCHANGED <<call, tmp, hist, send_queue_max, now, config, heap, send_queue, send_later,
                   processed_a, processed_b, neighbors, lora, duty_cycle, on_air>>

\* self.neighbors = new, then the Hello is enqueued unless quiet, and the
\* task sleeps.
HelloAssignSend ==
    /\ pc = "hello_assign"
    /\ LET nb == tmp
           o == FirstFree(heap)
           msg == Message(MessageTypeHello, 0, 0, default_ttl, ThisSender,
                          Cardinality(DOMAIN nb), FALSE, now)
           st1 == send_asynchronously(
                      St([heap EXCEPT ![o] = msg], send_queue, processed_a),
                      processed_b, o, 0, 1, FALSE, config.prom, now)
       IN /\ neighbors' = nb
          /\ IF ~config.quiet
             THEN /\ o # NoOid
                  /\ send_queue' = st1.q
                  /\ heap' = Collect(st1.heap, st1.q, send_later,
                                     processed_a, processed_b, on_air)
                  /\ ev' = [Ev("hello", IF st1.ok THEN "queued" ELSE "full")
                              EXCEPT !.o = IF st1.ok THEN o ELSE NoOid]
             ELSE /\ ev' = Ev("hello", "quiet")
                  /\ UNCHANGED <<send_queue, heap>>
    /\ pc' = "idle"
    /\ tmp' = <<>>
    /\ UNCHANGED <<call, hist, send_queue_max, now, config, send_later, processed_a, processed_b,
                   lora, duty_cycle, on_air>>

\* A Data message of this node: Message(nick, text) with a fresh random
\* uid, then send_asynchronously(msg, max_delay=0, num_tx, relay=True).
originate(op, uid, num_tx) ==
    LET o == FirstFree(heap)
        msg == Message(MessageTypeData, 0, uid, default_ttl, ThisSender, 0,
                       FALSE, now)
        st1 == send_asynchronously(
                   St([heap EXCEPT ![o] = msg], send_queue, processed_a),
                   processed_b, o, 0, num_tx, TRUE, config.prom, now)
    IN /\ o # NoOid
       /\ send_queue' = st1.q
       /\ processed_a' = st1.pa
       /\ heap' = Collect(st1.heap, st1.q, send_later, st1.pa, processed_b,
                          on_air)
       /\ ev' = [Ev(op, IF st1.ok THEN "queued" ELSE "full")
                   EXCEPT !.o = IF st1.ok THEN o ELSE NoOid,
                          !.surfaced = TRUE]

\* One iteration of send_periodic_message with automsg on.
PeriodicTask ==
    /\ pc = "idle"
    /\ config.automsg
    /\ \E uid \in LocalUIDs : originate("automsg", uid, user_num_tx)
    /\ UNCHANGED <<call, tmp, hist, send_queue_max, now, config, send_later, pc, processed_b, neighbors,
                   lora, duty_cycle, on_air>>

\* exec_user_command with a line of text (no '!' prefix).
UserMessage ==
    /\ pc = "idle"
    /\ \E uid \in LocalUIDs : originate("user", uid, user_num_tx)
    /\ UNCHANGED <<call, tmp, hist, send_queue_max, now, config, send_later, pc, processed_b, neighbors,
                   lora, duty_cycle, on_air>>

\* handle_bool_setting: !quiet, !prom, !automsg, !crc with an argument.
CmdBool(field, value) ==
    /\ pc = "idle"
    /\ config[field] # value
    /\ config' = [config EXCEPT ![field] = value]
    /\ ev' = Ev("cmd", field)
    /\ UNCHANGED <<call, tmp, hist, send_queue_max, now, heap, send_queue, send_later, pc, processed_a,
                   processed_b, neighbors, lora, duty_cycle, on_air>>

\* !preset, !sp, !cr, !bw, !pw: all end in lora_reset_and_configure().
CmdReconfigure ==
    /\ pc = "idle"
    /\ lora' = lora_reset_and_configure(lora)
    /\ on_air' = NoOid
    /\ heap' = Collect(heap, send_queue, send_later, processed_a,
                       processed_b, NoOid)
    /\ ev' = Ev("cmd", "reconfigure")
    /\ UNCHANGED <<call, tmp, hist, send_queue_max, now, config, send_queue, send_later, pc, processed_a,
                   processed_b, neighbors, duty_cycle>>

\* The clock advances; a cron pass takes no time at the scale of a tick.
Tick ==
    /\ pc = "idle"
    /\ now < MaxTime
    /\ now' = now + 1
    /\ ev' = Ev("tick", "")
    /\ UNCHANGED <<call, tmp, hist, send_queue_max, config, heap, send_queue, send_later, pc, processed_a,
                   processed_b, neighbors, lora, duty_cycle, on_air>>

\* The clock on a longer run, for the specification that follows a message
\* through all its transmissions.
TickLong ==
    /\ pc = "idle"
    /\ now < MaxLongTime
    /\ now' = now + 1
    /\ ev' = Ev("tick", "")
    /\ UNCHANGED <<call, tmp, hist, send_queue_max, config, heap, send_queue, send_later, pc, processed_a,
                   processed_b, neighbors, lora, duty_cycle, on_air>>

\* The clock advances inside send_messages_in_queue: time.ticks_ms() is read
\* anew at every iteration of the loop, and an iteration (encode, the SPI
\* transfer of lora.send, sleep_ms(1), an interrupt handler) takes time.
TickInPass ==
    /\ pc = "drain"
    /\ now < MaxTime
    /\ now' = now + 1
    /\ ev' = Ev("tick", "in_pass")
    /\ UNCHANGED <<call, tmp, hist, send_queue_max, config, heap, send_queue, send_later, pc, processed_a,
                   processed_b, neighbors, lora, duty_cycle, on_air>>

\* ------------------------------------------------------- History, on its own
\* h.append(data): False for a record longer than recordsize, else the
\* record is written.
HistAppend(data) ==
    /\ Len(hist.appended) < MaxAppends
    /\ hist' = IF data = LongData
               THEN [hist EXCEPT !.ret = [op |-> "append", index |-> 0,
                                          count |-> 0, raised |-> FALSE,
                                          records |-> <<>>]]
               ELSE [hist EXCEPT !.files = append(hist, data),
                                 !.appended = Append(@, data),
                                 !.ret = [op |-> "append", index |-> 0,
                                          count |-> 0, raised |-> FALSE,
                                          records |-> <<data>>]]
    /\ UNCHANGED <<call, tmp, send_queue_max, now, config, heap, send_queue, send_later, pc,
                   processed_a, processed_b, neighbors, lora, duty_cycle, on_air, ev>>

\* h.get_records(index, count).
HistGetRecords(index, count) ==
    /\ LET r == get_records(hist, index, count)
       IN hist' = [hist EXCEPT !.ret = [op |-> "get_records", index |-> index,
                                        count |-> count, raised |-> r.raised,
                                        records |-> r.records]]
    /\ UNCHANGED <<call, tmp, send_queue_max, now, config, heap, send_queue, send_later, pc,
                   processed_a, processed_b, neighbors, lora, duty_cycle, on_air, ev>>

\* h.reset(): both unlinks are in one try, so a missing hist1 leaves hist2
\* in place.
HistReset ==
    /\ hist.files # << <<>>, <<>> >>
    /\ hist' = IF hist.files[1] = <<>>
               THEN [hist EXCEPT !.ret = [op |-> "reset", index |-> 0,
                                          count |-> 0, raised |-> FALSE,
                                          records |-> <<>>]]
               ELSE [History(hist.histlen) EXCEPT
                        !.ret = [op |-> "reset", index |-> 0, count |-> 0,
                                 raised |-> FALSE, records |-> <<>>]]
    /\ UNCHANGED <<call, tmp, send_queue_max, now, config, heap, send_queue, send_later, pc,
                   processed_a, processed_b, neighbors, lora, duty_cycle, on_air, ev>>

\* h.append(data) in two steps, for the crashes between them.  The first
\* step is the call up to the open() of the selected file: the size test
\* and the deletions.
HistAppendUnlink(data) ==
    /\ hist.ret.op # "append_unlinked"
    /\ Len(hist.appended) < MaxAppends
    /\ hist' = IF data = LongData
               THEN [hist EXCEPT !.ret = [op |-> "append", index |-> 0,
                                          count |-> 0, raised |-> FALSE,
                                          records |-> <<>>]]
               ELSE LET u == append_unlinks(hist)
                    IN [hist EXCEPT !.files = u.files,
                                    !.ret = [op |-> "append_unlinked",
                                             index |-> u.file_id,
                                             count |-> 0, raised |-> FALSE,
                                             records |-> <<data>>]]
    /\ UNCHANGED <<call, tmp, send_queue_max, now, config, heap, send_queue, send_later, pc,
                   processed_a, processed_b, neighbors, lora, duty_cycle, on_air, ev>>

\* The second step: open(file_name, 'ab'), write, close.
HistAppendWrite ==
    /\ hist.ret.op = "append_unlinked"
    /\ LET data == hist.ret.records[1]
       IN hist' = [hist EXCEPT !.files[hist.ret.index + 1] = Append(@, data),
                               !.appended = Append(@, data),
                               !.ret = [op |-> "append", index |-> 0,
                                        count |-> 0, raised |-> FALSE,
                                        records |-> <<data>>]]
    /\ UNCHANGED <<call, tmp, send_queue_max, now, config, heap, send_queue, send_later, pc,
                   processed_a, processed_b, neighbors, lora, duty_cycle, on_air, ev>>

\* The device stops between the two steps and starts again: the files are
\* what the deletions left, the record was never written.
HistCrash ==
    /\ hist.ret.op = "append_unlinked"
    /\ hist' = [hist EXCEPT !.ret = [op |-> "crash", index |-> 0,
                                     count |-> 0, raised |-> FALSE,
                                     records |-> <<>>]]
    /\ UNCHANGED <<call, tmp, send_queue_max, now, config, heap, send_queue, send_later, pc,
                   processed_a, processed_b, neighbors, lora, duty_cycle, on_air, ev>>

\* ------------------------------------------------------ Keychain, on its own
\* kc.encrypt(packet, key_name) on a keychain that holds key_name.
KcEncrypt(keys, packet, key_name, iv) ==
    /\ call.fn = ""
    /\ key_name \in DOMAIN keys
    /\ call' = [NoCall EXCEPT !.fn = "encrypt", !.keys = keys,
                              !.key_name = key_name, !.packet = packet,
                              !.frame = encrypt(keys, packet, key_name, iv)]
    /\ UNCHANGED <<tmp, hist, send_queue_max, now, config, heap, send_queue, send_later,
                   pc, processed_a, processed_b, neighbors, lora, duty_cycle, on_air, ev>>

\* The channel inverts one bit of the frame.
KcFlip(pl) ==
    /\ call.fn = "encrypt"
    /\ call' = [call EXCEPT !.fn = "flip", !.place = pl,
                            !.frame = flipped(@, pl)]
    /\ UNCHANGED <<tmp, hist, send_queue_max, now, config, heap, send_queue, send_later,
                   pc, processed_a, processed_b, neighbors, lora, duty_cycle, on_air, ev>>

\* A node on the way relays the frame: it sets or clears the Relayed flag
\* and writes another ttl.
KcRelay(relayed, ttl) ==
    /\ call.fn = "encrypt"
    /\ call' = [call EXCEPT
                  !.fn = "relay",
                  !.frame.flags = IF relayed
                                  THEN SetFlag(@, MessageFlagsRelayed)
                                  ELSE clear_relayed(@),
                  !.frame.ttl = ttl]
    /\ UNCHANGED <<tmp, hist, send_queue_max, now, config, heap, send_queue, send_later,
                   pc, processed_a, processed_b, neighbors, lora, duty_cycle, on_air, ev>>

\* kc.decrypt(frame) on the keychain dkeys.
KcDecrypt(dkeys) ==
    /\ call.fn \in {"encrypt", "flip", "relay"}
    /\ \E r \in decrypt(dkeys, call.frame) :
          call' = [call EXCEPT !.fn = "decrypt", !.via = call.fn,
                               !.dkeys = dkeys, !.ret = r]
    /\ UNCHANGED <<tmp, hist, send_queue_max, now, config, heap, send_queue, send_later,
                   pc, processed_a, processed_b, neighbors, lora, duty_cycle, on_air, ev>>

\* ------------------------------------- cron, at the grain of the interrupts
\* self.send_queue = self.send_queue + send_later, first half: the two
\* lists are read and the new list is built; the radio callback can run
\* before the attribute is stored.
DrainEndRead ==
    /\ \/ pc = "drain_end"
       \/ pc = "drain" /\ send_queue = <<>>
    /\ tmp' = send_queue \o send_later
    /\ pc' = "drain_assign"
    /\ ev' = Ev("drain_end", "read")
    /\ UNCHANGED <<call, hist, send_queue_max, now, config, heap, send_queue, send_later,
                   processed_a, processed_b, neighbors, lora, duty_cycle, on_air>>

\* Second half: the new list is stored in self.send_queue.
DrainEndAssign ==
    /\ pc = "drain_assign"
    /\ send_queue' = tmp
    /\ send_later' = <<>>
    /\ tmp' = <<>>
    /\ heap' = Collect(heap, tmp, <<>>, processed_a, processed_b, on_air)
    /\ pc' = "evict"
    /\ ev' = Ev("drain_end", "")
    /\ UNCHANGED <<call, hist, send_queue_max, now, config, processed_a, processed_b,
                   neighbors, lora, duty_cycle, on_air>>

\* The while loop of evict_processed_cache.
EvictScan ==
    /\ pc = "evict"
    /\ \E r \in evict_scan(heap, processed_a, processed_b, evict_count, now) :
          /\ processed_a' = r.a
          /\ processed_b' = r.b
          /\ heap' = Collect(heap, send_queue, send_later, r.a, r.b, on_air)
    /\ pc' = "evict_test"
    /\ ev' = Ev("evict", "scan")
    /\ UNCHANGED <<call, tmp, hist, send_queue_max, now, config, send_queue, send_later, neighbors, lora,
                   duty_cycle, on_air>>

\* if len(self.processed_a) == 0 and len(self.processed_b) != 0.
EvictTest ==
    /\ pc = "evict_test"
    /\ pc' = IF processed_a = {} /\ processed_b # {} THEN "evict_swap"
             ELSE "idle"
    /\ ev' = Ev("evict", "test")
    /\ UNCHANGED <<call, tmp, hist, send_queue_max, now, config, heap, send_queue, send_later,
                   processed_a, processed_b, neighbors, lora, duty_cycle, on_air>>

\* self.processed_a = self.processed_b; self.processed_b = {}.
EvictSwap ==
    /\ pc = "evict_swap"
    /\ processed_a' = processed_b
    /\ processed_b' = {}
    /\ heap' = Collect(heap, send_queue, send_later, processed_b, {}, on_air)
    /\ pc' = "idle"
    /\ ev' = Ev("evict", "")
    /\ UNCHANGED <<call, tmp, hist, send_queue_max, now, config, send_queue, send_later, neighbors, lora,
                   duty_cycle, on_air>>

\* A line "!name args" typed by the user, already split: the whole
\* exec_user_command, with the reconfiguration of the radio when the method
\* asks for it.
ExecUserCommand(argv) ==
    LET r == exec_user_command(config, argv, hist)
    IN /\ pc = "idle"
       /\ config' = r.config
       /\ lora' = IF r.reconfigured THEN lora_reset_and_configure(lora)
                  ELSE lora
       /\ on_air' = IF r.reconfigured THEN NoOid ELSE on_air
       /\ heap' = IF r.reconfigured
                  THEN Collect(heap, send_queue, send_later, processed_a,
                               processed_b, NoOid)
                  ELSE heap
       /\ call' = [fn |-> "exec_user_command", argv |-> argv,
                   before |-> config, replies |-> r.replies,
                   reconfigured |-> r.reconfigured, ret |-> r.ret]
       /\ ev' = [Ev("cmd", argv[1]) EXCEPT !.replied = r.replies > 0]
       /\ UNCHANGED <<tmp, hist, send_queue_max, now, send_queue, send_later, pc,
                      processed_a, processed_b, neighbors, duty_cycle>>

\* ------------------------------------------------- Message codec, on its own
\* m.encode() of a message built by this node.
MsgEncode(m) ==
    /\ call.fn = ""
    /\ call' = [fn |-> "encode", m |-> m, encoded |-> encode(m),
                ret |-> [ok |-> FALSE, m |-> DefaultMessage]]
    /\ UNCHANGED <<tmp, hist, send_queue_max, now, config, heap, send_queue, send_later,
                   pc, processed_a, processed_b, neighbors, lora, duty_cycle, on_air, ev>>

\* Message.from_encoded(encoded, None) at the receiver.
MsgFromEncoded ==
    /\ call.fn = "encode"
    /\ call' = [call EXCEPT !.fn = "from_encoded", !.ret = decode(call.encoded)]
    /\ UNCHANGED <<tmp, hist, send_queue_max, now, config, heap, send_queue, send_later,
                   pc, processed_a, processed_b, neighbors, lora, duty_cycle, on_air, ev>>

\* ------------------------------------------------------------ specification
CronStep == DrainStart \/ DrainIter \/ DrainEnd \/ EvictProcessedCache

\* The scheduler and the radio driver on a channel that carries no frame
\* for this node: user messages, the Hello emitter, the periodic message,
\* the cron task, the radio interrupts, the quiet and automsg switches.
Next ==
    \/ UserMessage
    \/ HelloTask
    \/ PeriodicTask
    \/ CronStep
    \/ LoraTxDone
    \/ PacketOnAir(POAPreamble)
    \/ PacketOnAir(POAHeader)
    \/ CmdBool("quiet", TRUE)
    \/ CmdBool("quiet", FALSE)
    \/ CmdBool("automsg", TRUE)
    \/ CmdBool("automsg", FALSE)
    \/ CmdReconfigure
    \/ Tick

Spec == Init /\ [][Next]_vars

\* The tasks of the engine are asyncio loops that never end (cron,
\* send_hello_message, send_periodic_message) and the clock advances; the
\* radio interrupts and the user have no such obligation.  The other tasks
\* and the clock step only between two cron passes, where the event loop
\* gives every ready task its turn: strong fairness.
FairSpec ==
    /\ Spec
    /\ WF_vars(CronStep)
    /\ SF_vars(HelloTask)
    /\ SF_vars(PeriodicTask)
    /\ SF_vars(Tick)

\* The receive path for Data frames of every kind and shape, on a node
\* whose quiet setting comes from the configuration files (UserConfig,
\* settings.txt).
RxInit ==
    /\ InitEngine
    /\ send_queue_max = QueueMax
    /\ \E q \in BOOLEAN :
          config = [quiet |-> q, prom |-> FALSE, check_crc |-> TRUE,
                    automsg |-> TRUE]
    /\ hist = History(histlen)

RxFrames == {f \in DataFrames : f.uid \in LocalUIDs}

RxNext ==
    \/ \E f \in RxFrames : ReceiveLoraPacket(f)
    \/ CronStep
    \/ LoraTxDone
    \/ Tick

RxSpec == RxInit /\ [][RxNext]_vars

\* The processed cache: this node's own messages and plain Data frames of
\* two uids, one of them the uid of the node's own messages.
DedupFrames ==
    {f \in DataFrames : /\ f.kind = "plain"
                        /\ f.flags = MessageFlagsPleaseRelay
                        /\ f.ttl = 2
                        /\ f.rssi = WeakRssi}

DedupNext ==
    \/ \E f \in DedupFrames : ReceiveLoraPacket(f)
    \/ UserMessage
    \/ CronStep
    \/ LoraTxDone
    \/ Tick

DedupSpec == Init /\ [][DedupNext]_vars

\* Acks and Hellos of the neighbours against the retransmissions of this
\* node's messages, with room for two messages in the send queue.
MeshInit ==
    /\ InitEngine
    /\ send_queue_max = MeshQueueMax
    /\ config = [quiet |-> FALSE, prom |-> FALSE, check_crc |-> TRUE,
                 automsg |-> TRUE]
    /\ hist = History(histlen)

MeshFrames ==
    {f \in AckFrames \cup HelloFrames :
        f.uid \in LocalUIDs \cup {0} /\ f.sender = "X"}

MeshNext ==
    \/ \E f \in MeshFrames : ReceiveLoraPacket(f)
    \/ UserMessage
    \/ CronStep
    \/ LoraTxDone
    \/ Tick

MeshSpec == MeshInit /\ [][MeshNext]_vars

\* Promiscuous mode switched on and off by the user while a relayable
\* Data frame keeps arriving, first-hand or already relayed by a node.
PromFrames ==
    { Frame(sh[1], MessageTypeData, sh[2], u, 2, "X", WeakRssi, FALSE) :
        sh \in { <<"plain", MessageFlagsPleaseRelay>>,
                 <<"plain", MessageFlagsPleaseRelay + MessageFlagsRelayed>> },
        u \in LocalUIDs }

PromNext ==
    \/ \E f \in PromFrames : ReceiveLoraPacket(f)
    \/ CmdBool("prom", TRUE)
    \/ CmdBool("prom", FALSE)
    \/ CronStep
    \/ LoraTxDone
    \/ Tick

PromSpec == MeshInit /\ [][PromNext]_vars

\* Frames encrypted with a key this node has not, of two ciphertexts, one
\* shape that passes the relay gates and one too strong to be relayed; a
\* Hello fills the neighbors table.
NoKeyFrames ==
    { [Frame("no_key", MessageTypeData, MessageFlagsPleaseRelay + MessageFlagsEncr,
             u, 2, "X", r, FALSE) EXCEPT !.tail = t] :
        u \in LocalUIDs, r \in {WeakRssi, StrongRssi}, t \in {"c1", "c2"} }

NoKeyNext ==
    \/ \E f \in NoKeyFrames : ReceiveLoraPacket(f)
    \/ \E f \in {h \in HelloFrames : h.sender = "X"} : ReceiveLoraPacket(f)
    \/ CronStep
    \/ LoraTxDone
    \/ Tick

NoKeySpec == Init /\ [][NoKeyNext]_vars

\* The three message types on the channel: a Data frame that is both
\* acknowledged and relayed, Acks for its uid and Hellos, the two latter
\* also with the PleaseRelay bit set in their flags.
TypesFrames ==
    { Frame("plain", MessageTypeData, MessageFlagsPleaseRelay, u, 2, "X",
            WeakRssi, FALSE) : u \in LocalUIDs }
    \cup { Frame("plain", MessageTypeAck, fl, u, 0, "X", WeakRssi, FALSE) :
             u \in LocalUIDs,
             fl \in {MessageFlagsNone, MessageFlagsPleaseRelay} }
    \cup { Frame("plain", MessageTypeHello, fl, 0, 0, "X", WeakRssi, FALSE) :
             fl \in {MessageFlagsNone, MessageFlagsPleaseRelay} }

TypesNext ==
    \/ \E f \in TypesFrames : ReceiveLoraPacket(f)
    \/ CronStep
    \/ LoraTxDone
    \/ Tick

TypesSpec == MeshInit /\ [][TypesNext]_vars

\* The order of the send queue: this node's messages and the relays of a
\* Data frame that arrives at any moment, a drain pass included, with a
\* clock that also advances during a pass.
OrderFrames ==
    {f \in DedupFrames : f.uid \notin LocalUIDs}

OrderNext ==
    \/ \E f \in OrderFrames : ReceiveLoraPacket(f)
    \/ UserMessage
    \/ CronStep
    \/ LoraTxDone
    \/ Tick
    \/ TickInPass

OrderSpec == MeshInit /\ [][OrderNext]_vars

\* The journal on its own, as the self-test of history.py drives it: a
\* History of any small histlen, appends, reads and resets.
HistInit ==
    /\ InitEngine
    /\ send_queue_max = QueueMax
    /\ config = [quiet |-> FALSE, prom |-> FALSE, check_crc |-> TRUE,
                 automsg |-> TRUE]
    /\ \E hl \in 1..MaxHistLen : hist = History(hl)

HistNext ==
    \/ \E data \in HistData \cup {LongData} : HistAppend(data)
    \/ \E index \in 0..MaxHistLen, count \in 1..MaxHistLen :
          HistGetRecords(index, count)
    \/ HistReset

HistSpec == HistInit /\ [][HistNext]_vars

\* The journal across crashes: appends that may stop after their deletions
\* and before their write.
CrashNext ==
    \/ \E data \in HistData \cup {LongData} : HistAppendUnlink(data)
    \/ HistAppendWrite
    \/ HistCrash

CrashSpec == HistInit /\ [][CrashNext]_vars

\* The neighbors table between the Hellos of three nodes and the eviction
\* loop of the Hello emitter, which the receive callback can interrupt.
NeighborFrames ==
    { Frame("plain", MessageTypeHello, MessageFlagsNone, 0, 0, s, WeakRssi,
            FALSE) : s \in HelloSenders }

NeighborNext ==
    \/ \E f \in NeighborFrames : ReceiveLoraPacket(f)
    \/ HelloEvictStart
    \/ HelloEvictIter
    \/ HelloEvictExit
    \/ HelloAssignSend
    \/ CronStep
    \/ LoraTxDone
    \/ Tick

NeighborSpec == RxInit /\ [][NeighborNext]_vars

\* The keychain on its own, as its self-test drives it: a packet is
\* encrypted, changed or not on its way, and decrypted.
CryptoNext ==
    \/ \E keys \in Keychains, packet \in Packets, key_name \in KeyNames,
          iv \in IVs : KcEncrypt(keys, packet, key_name, iv)
    \/ \E pl \in FlipPlaces : KcFlip(pl)
    \/ \E relayed \in BOOLEAN, ttl \in {0, default_ttl - 1} :
          KcRelay(relayed, ttl)
    \/ \E dkeys \in Keychains : KcDecrypt(dkeys)

CryptoSpec == Init /\ [][CryptoNext]_vars

\* The message codec on its own: a message is encoded and the bytes are
\* decoded.
CodecNext ==
    \/ \E m \in WireMessages : MsgEncode(m)
    \/ MsgFromEncoded

CodecSpec == Init /\ [][CodecNext]_vars

\* The command line on its own, from the configuration of wan_config.py:
\* every command with no, one and two arguments.
CliInit ==
    /\ InitEngine
    /\ send_queue_max = QueueMax
    /\ config = [quiet |-> FALSE, prom |-> FALSE, check_crc |-> TRUE,
                 automsg |-> TRUE, nick |-> "me", lora_sp |-> 12,
                 lora_bw |-> 250000, lora_cr |-> 8, lora_pw |-> 17]
    /\ hist = History(histlen)

Argvs ==
    LET names == {"nick", "preset", "pw", "sp", "cr", "bw", "last", "bogus"}
        args == DOMAIN Numerals \cup {"abc", "fast"}
    IN { <<n>> : n \in names } \cup { <<n, a>> : n \in names, a \in args }
         \cup { <<n, "abc", "abc">> : n \in names }

CliNext == \E argv \in Argvs : ExecUserCommand(argv)

CliSpec == CliInit /\ [][CliNext]_vars

\* The cron pass at the grain at which the radio callback pre-empts it:
\* the callback runs between the read and the store of the re-assignment
\* of the queue, and between the scan, the test and the swap of the
\* eviction.
PreemptNext ==
    \/ \E f \in DedupFrames : ReceiveLoraPacket(f)
    \/ UserMessage
    \/ DrainStart
    \/ DrainIter
    \/ DrainEndRead
    \/ DrainEndAssign
    \/ EvictScan
    \/ EvictTest
    \/ EvictSwap
    \/ LoraTxDone
    \/ Tick

PreemptSpec == Init /\ [][PreemptNext]_vars

\* A node X that is in the neighbor table and a node Y that is not: the
\* Hellos of X and the Acks of Y about the messages of this node.
StrangerFrames ==
    {f \in HelloFrames : f.sender = "X"}
      \cup {f \in AckFrames : f.uid \in LocalUIDs /\ f.sender = "Y"}

StrangerNext ==
    \/ \E f \in StrangerFrames : ReceiveLoraPacket(f)
    \/ UserMessage
    \/ CronStep
    \/ LoraTxDone
    \/ Tick

StrangerSpec == MeshInit /\ [][StrangerNext]_vars

\* A message from its enqueueing to its last transmission: the user's
\* messages, the cron task, the radio interrupt, a radio that may stay
\* busy until the watchdog resets it, the quiet switch, and a clock that
\* runs long enough for three transmissions.
CountNext ==
    \/ UserMessage
    \/ CronStep
    \/ LoraTxDone
    \/ CmdBool("quiet", TRUE)
    \/ CmdBool("quiet", FALSE)
    \/ TickLong

CountSpec == Init /\ [][CountNext]_vars

\* The same with room for two messages in the queue, both typed when the
\* node starts, and with what the platform guarantees: cron is an asyncio
\* loop that never ends, the radio raises TxDone for every transmission,
\* and the clock advances between two cron passes.  No carrier is
\* detected: the channel is clear.
LiveNext ==
    \/ now = 0 /\ UserMessage
    \/ CronStep
    \/ LoraTxDone
    \/ TickLong

LiveSpec ==
    /\ MeshInit
    /\ [][LiveNext]_vars
    /\ WF_vars(CronStep)
    /\ WF_vars(LoraTxDone)
    /\ SF_vars(TickLong)

\* ------------------------------------------------------------------ claims
\* C1: the drain hands no frame to the radio in a cron pass at whose start
\* get_duty_cycle() is at least the duty-cycle cap.  The step examined is
\* the first loop iteration of a pass, taken right after the pass started,
\* so the duty cycle of the state it leaves is the one at the pass's start.
C1_DutyCycleGate ==
    [][ (ev.op = "drain_start" /\ ev'.op = "drain" /\ ev'.res = "sent")
          => ~duty_cycle_at_least(duty_cycle, now, duty_cycle_cap) ]_vars

\* C5: lora.send is never called while lora.tx_in_progress is true, and a
\* due message popped while the radio is transmitting is put back (the
\* queue is as it was before the pop) and the pass stops.
C5_OneSendInFlight ==
    [][ /\ (ev'.op = "drain" /\ ev'.res = "sent") => ~lora.tx_in_progress
        /\ (/\ DrainIter
            /\ is_due(heap[Head(send_queue)], now)
            /\ lora.tx_in_progress)
             => /\ send_queue' = send_queue
                /\ send_later' = send_later
                /\ pc' = "drain_end"
                /\ on_air' \in {on_air, NoOid}
                /\ duty_cycle' = duty_cycle ]_vars

\* A due message was popped while the radio was transmitting a frame and
\* is at the head of the queue again.
C5_Witness ==
    /\ ev.op = "drain" /\ ev.res = "busy"
    /\ lora.tx_in_progress
    /\ pc = "drain_end"
    /\ Head(send_queue) = ev.o
    /\ on_air # NoOid

\* C6: a drain pass at whose start modem_is_receiving_packet() reports a
\* reception in progress ends at once: the iteration loop is not entered,
\* no frame is handed to the radio and the send queue with every entry's
\* fields is as it was.
C6_ListenBeforeTalk ==
    [][ (DrainStart /\ modem_is_receiving_packet(lora, now).packet_on_air # 0)
          => /\ pc' = "evict"
             /\ send_queue' = send_queue
             /\ heap' = heap
             /\ lora'.tx_in_progress = lora.tx_in_progress
             /\ on_air' = on_air
             /\ duty_cycle' = duty_cycle ]_vars

\* A pass returned on listen-before-talk although a due message was
\* waiting and the radio was not transmitting.
C6_Witness ==
    /\ ev.op = "drain_start" /\ ev.res = "lbt"
    /\ pc = "evict"
    /\ send_queue # <<>>
    /\ is_due(heap[Head(send_queue)], now)
    /\ ~lora.tx_in_progress

\* C7: whenever tx_in_progress has been true for more than the watchdog
\* time, the radio is eventually reset (tx_in_progress becomes false), in
\* every state of the engine.  The clock of the model stops at MaxTime, so
\* a message whose send_time the clock cannot pass, or a packet_on_air
\* mark that cannot age, would last for ever; the behaviours that wait on
\* one of them are left out by the last two disjuncts.
C7_WatchdogResponds ==
    (lora.tx_in_progress
       /\ get_current_tx_time(duty_cycle, now) > TX_WATCHDOG_TIME)
      ~> (\/ ~lora.tx_in_progress
          \/ \E o \in Elems(send_queue) \cup Elems(send_later) :
                ~is_due(heap[o], now)
          \/ modem_is_receiving_packet(lora, now).packet_on_air # 0)

\* C8 as stated: when the watchdog fires, the message that was in flight
\* is in the send queue (or in send_later, which joins it when the pass
\* ends) after the reset.
C8_InFlightRequeued ==
    [][ (ev'.op = "drain" /\ ev'.res = "watchdog")
          => on_air \in Elems(send_queue') \cup Elems(send_later') ]_vars

\* C8 amended: when the watchdog fires, the radio is reset and receives
\* again, and the due message popped in that pass is put back unchanged at
\* the head of the send queue; the queue is as it was before the pop.
C8_PoppedPutBack ==
    [][ (/\ DrainIter
         /\ is_due(heap[Head(send_queue)], now)
         /\ lora.tx_in_progress
         /\ get_current_tx_time(duty_cycle, now) > TX_WATCHDOG_TIME)
          => /\ ~lora'.tx_in_progress /\ lora'.receiving
             /\ send_queue' = send_queue
             /\ heap'[Head(send_queue)] = heap[Head(send_queue)]
             /\ pc' = "drain_end" ]_vars

\* The watchdog fired: the radio is reset, the popped message is at the
\* head of the queue, and the frame that was in flight belongs to no
\* queued message.
C8_Witness ==
    /\ ev.op = "drain" /\ ev.res = "watchdog"
    /\ ~lora.tx_in_progress /\ lora.receiving
    /\ Head(send_queue) = ev.o
    /\ on_air = NoOid
    /\ \A i \in DOMAIN send_queue : ~heap[send_queue[i]].sent

\* C10: while quiet mode is on no Ack, no Hello, no relayed Data and no
\* retransmission of a message already sent once is handed to the radio.
C10_QuietSendsUserDataOnce ==
    [][ (ev'.op = "drain" /\ ev'.res = "sent" /\ config.quiet)
          => /\ heap[ev'.o].type = MessageTypeData
             /\ ~HasFlag(heap[ev'.o].flags, MessageFlagsRelayed)
             /\ ~heap[ev'.o].sent ]_vars

\* C2: with prom off, a Data frame whose uid is in the processed cache (in
\* processed_a or processed_b, put there by a reception or by this node's
\* own send_asynchronously) is dropped: not surfaced, not journaled, no Ack
\* and no relay enqueued, nothing changed in the engine.
C2_DuplicateDropped ==
    [][ (/\ ev'.op = "rx" /\ ev'.type = MessageTypeData
         /\ ev'.res # "bad_crc"
         /\ ~config.prom
         /\ get_processed_message(heap, processed_a, processed_b,
                                  ev'.uid) # NoOid)
          => /\ ev'.res = "dup"
             /\ ~ev'.surfaced /\ ~ev'.journaled
             /\ ev'.ack = NoOid /\ ev'.relay = NoOid
             /\ send_queue' = send_queue
             /\ heap' = heap
             /\ processed_a' = processed_a
             /\ processed_b' = processed_b
             /\ neighbors' = neighbors ]_vars

\* A frame was dropped as a duplicate of this node's own message, found in
\* the older generation of the cache.
C2_Witness ==
    /\ ev.op = "rx" /\ ev.res = "dup"
    /\ ~config.prom
    /\ \E o \in processed_b : heap[o].sender = ThisSender
    /\ processed_a # {}

C4_AckSuppression ==
    [][ (ev'.op = "drain" /\ ev'.res = "sent")
          => ~(/\ heap[ev'.o].type = MessageTypeData
               /\ heap[ev'.o].sent
               /\ ev'.o \in processed_a \cup processed_b
               /\ DOMAIN neighbors # {}
               /\ DOMAIN neighbors \subseteq heap[ev'.o].acks) ]_vars

\* C9 as stated: a canceled message that was sent before is not handed to
\* the radio, and the pass that pops it when due removes it from the queue.
C9_CanceledRemovedWhenPopped ==
    [][ (/\ DrainIter
         /\ is_due(heap[Head(send_queue)], now)
         /\ heap[Head(send_queue)].send_canceled
         /\ heap[Head(send_queue)].sent)
          => /\ ev'.res # "sent"
             /\ Head(send_queue) \notin
                  Elems(send_queue') \cup Elems(send_later') ]_vars

\* C9 amended: send_canceled, once true, stays true as long as the message
\* exists; a canceled message is never handed to the radio; and the pass
\* that pops it when due while the radio is not transmitting removes it
\* from the queue, whatever num_tx it has left.
C9_CanceledNeverSent ==
    [][ /\ \A o \in OIDs :
              heap[o].send_canceled
                => heap'[o].send_canceled \/ heap'[o] = FreeCell
        /\ (ev'.op = "drain" /\ ev'.res = "sent")
              => ~heap[ev'.o].send_canceled
        /\ (/\ DrainIter
            /\ is_due(heap[Head(send_queue)], now)
            /\ heap[Head(send_queue)].send_canceled
            /\ ~lora.tx_in_progress)
              => /\ ev'.res = "skipped"
                 /\ lora' = lora
                 /\ Head(send_queue) \notin
                      Elems(send_queue') \cup Elems(send_later') ]_vars

\* A message sent once, canceled by the neighbours' Acks with
\* retransmissions left, was popped when due and left the queue unsent.
C9_Witness ==
    /\ ev.op = "drain" /\ ev.res = "skipped"
    /\ heap[ev.o].send_canceled
    /\ heap[ev.o].sent
    /\ heap[ev.o].num_tx > 1
    /\ is_due(heap[ev.o], now)
    /\ ev.o \notin Elems(send_queue) \cup Elems(send_later)
\* C11: with prom on, a Data frame whose uid is in the processed cache is
\* surfaced again and no relay is enqueued for it.
C11_PromNoSecondRelay ==
    [][ (/\ ev'.op = "rx" /\ ev'.type = MessageTypeData
         /\ ev'.res # "bad_crc"
         /\ config.prom
         /\ get_processed_message(heap, processed_a, processed_b,
                                  ev'.uid) # NoOid)
          => /\ ev'.surfaced
             /\ ev'.relay = NoOid
             /\ \A o \in Elems(send_queue') \ Elems(send_queue) :
                   ~HasFlag(heap'[o].flags, MessageFlagsRelayed) ]_vars

\* C13: the receive path enqueues an Ack only for a Data frame seen for
\* the first time, decoded, with Media and Relayed unset, while quiet is
\* off; the Ack has the uid of the Data, ack_type Data, this node's sender
\* id, num_tx 1 and no send delay.
C13_AckOnlyFirstSeenData ==
    [][ (ev'.op = "rx" /\ ev'.ack # NoOid)
          => /\ get_processed_message(heap, processed_a, processed_b,
                                      ev'.uid) = NoOid
             /\ ev'.frame.type = MessageTypeData
             /\ ev'.frame.kind \in {"plain", "decrypted"}
             /\ ~HasFlag(ev'.frame.flags, MessageFlagsMedia)
             /\ ~HasFlag(ev'.frame.flags, MessageFlagsRelayed)
             /\ ~config.quiet
             /\ ev'.ack \in Elems(send_queue') \ Elems(send_queue)
             /\ heap'[ev'.ack].type = MessageTypeAck
             /\ heap'[ev'.ack].uid = ev'.frame.uid
             /\ heap'[ev'.ack].ack_type = MessageTypeData
             /\ heap'[ev'.ack].sender = ThisSender
             /\ heap'[ev'.ack].num_tx = 1
             /\ heap'[ev'.ack].send_time = now ]_vars
\* C12: a frame no key authenticates is never surfaced, journaled or
\* acknowledged and never changes the neighbors table; it can only put its
\* message in the processed cache and, when the relay gates allow, append
\* that one message to the send queue, whose encoding then ends with the
\* bytes of the received packet from byte 7 on; the saved packet never
\* changes afterwards.
C12_NoKeyOnlyRelayed ==
    [][ /\ (ev'.op = "rx" /\ ev'.type = MessageTypeData)
              => /\ ~ev'.surfaced /\ ~ev'.journaled /\ ev'.ack = NoOid
                 /\ neighbors' = neighbors
                 /\ processed_b' = processed_b
                 /\ processed_a' \subseteq processed_a \cup {ev'.o}
                 /\ \/ send_queue' = send_queue
                    \/ /\ ev'.relay = ev'.o
                       /\ send_queue' = Append(send_queue, ev'.o)
                       /\ encode_no_key(heap'[ev'.o]).tail = ev'.frame.tail
                 /\ \A o \in OIDs \ {ev'.o} :
                       heap'[o] \in {heap[o], FreeCell}
        /\ \A o \in OIDs :
              (heap[o].no_key /\ heap'[o] # FreeCell)
                => heap'[o].packet = heap[o].packet ]_vars

\* A frame that could not be decrypted was relayed: its message is in the
\* send queue with the packet of the frame, nothing was shown, journaled
\* or acknowledged, and the sender of a Hello is in the neighbors table.
C12_Witness ==
    /\ ev.op = "rx" /\ ev.res = "no_key"
    /\ ev.relay = ev.o
    /\ ev.o \in Elems(send_queue)
    /\ heap[ev.o].no_key
    /\ heap[ev.o].packet = "c2"
    /\ ev.ack = NoOid /\ ~ev.surfaced /\ ~ev.journaled
    /\ DOMAIN neighbors # {}
\* C14: the message relay_if_needed enqueues for a received Data frame has
\* the uid of the frame, its ttl minus 1, its flags with Relayed added
\* (PleaseRelay still set), num_tx = relay_num_tx and a send_time from now
\* to now + relay_max_delay.
C14_RelayCopy ==
    [][ (ev'.op = "rx" /\ ev'.relay # NoOid)
          => /\ ev'.relay \in Elems(send_queue') \ Elems(send_queue)
             /\ heap'[ev'.relay].type = MessageTypeData
             /\ heap'[ev'.relay].uid = ev'.frame.uid
             /\ heap'[ev'.relay].ttl = ev'.frame.ttl - 1
             /\ heap'[ev'.relay].flags =
                    SetFlag(ev'.frame.flags, MessageFlagsRelayed)
             /\ HasFlag(heap'[ev'.relay].flags, MessageFlagsPleaseRelay)
             /\ heap'[ev'.relay].num_tx = relay_num_tx
             /\ heap'[ev'.relay].send_time >= now
             /\ heap'[ev'.relay].send_time <= now + relay_max_delay ]_vars

\* A decrypted frame received at a later time was relayed with the longest
\* delay.
C14_Witness ==
    /\ ev.op = "rx" /\ ev.relay # NoOid
    /\ ev.frame.kind = "decrypted"
    /\ now > 0
    /\ heap[ev.relay].send_time = now + relay_max_delay
    /\ heap[ev.relay].ttl = 1
\* C15: handling a received Ack or Hello appends nothing to the send
\* queue (no relay, no Ack), so every queued message with the Relayed flag
\* is a Data and every queued Ack acknowledges a Data.
C15_AckHelloNeverQueued ==
    [][ /\ (ev'.op = "rx" /\ ev'.type \in {MessageTypeAck, MessageTypeHello})
              => /\ send_queue' = send_queue
                 /\ ev'.ack = NoOid /\ ev'.relay = NoOid
        /\ \A o \in Elems(send_queue') \cup Elems(send_later') :
              /\ HasFlag(heap'[o].flags, MessageFlagsRelayed)
                    => heap'[o].type = MessageTypeData
              /\ heap'[o].type = MessageTypeAck
                    => heap'[o].ack_type = MessageTypeData ]_vars

\* An Ack with the PleaseRelay bit arrived for a cached message while an
\* Ack and a relay of this node wait in the send queue.
C15_Witness ==
    /\ ev.op = "rx" /\ ev.res = "ack"
    /\ \E o \in Elems(send_queue) : heap[o].type = MessageTypeAck
    /\ \E o \in Elems(send_queue) :
          HasFlag(heap[o].flags, MessageFlagsRelayed)
    /\ DOMAIN neighbors # {}
\* C17: the send queue never holds more than send_queue_max messages.
C17_QueueBounded ==
    Len(send_queue) <= send_queue_max
\* C18: a message line typed while the send queue is full is reported as
\* failed through the reply callback and is not shown to the user as sent.
C18_FullQueueReported ==
    (ev.op = "user" /\ ev.res = "full") => (ev.replied /\ ~ev.surfaced)
C16_RelayNeverOvertakes ==
    [][ LET is_user_message(m) ==
                /\ m.type = MessageTypeData
                /\ m.sender = ThisSender
                /\ ~HasFlag(m.flags, MessageFlagsRelayed)
            precedes(u, r) ==
                /\ is_user_message(u)
                /\ HasFlag(r.flags, MessageFlagsRelayed)
                /\ u.ctime < r.ctime
                /\ u.send_time < r.send_time
        IN /\ (ev'.op = "drain" /\ ev'.res = "sent")
                => \A o \in Elems(Tail(send_queue)) \cup Elems(send_later) :
                      ~(precedes(heap[o], heap[ev'.o]) /\ ~heap[o].sent)
           /\ (ev'.op = "drain_end")
                => \A i, j \in DOMAIN send_queue' :
                      i < j => ~precedes(heap'[send_queue'[j]],
                                         heap'[send_queue'[i]]) ]_vars

\* C20: after n >= 1 successful appends, get_records(0, histlen) returns
\* the min(n, histlen) most recently appended records, newest first.
C20_JournalRetention ==
    (/\ hist.ret.op = "get_records"
     /\ hist.ret.index = 0
     /\ hist.ret.count = hist.histlen
     /\ Len(hist.appended) >= 1)
      => LET n == Len(hist.appended)
             k == Min(n, hist.histlen)
         IN /\ ~hist.ret.raised
            /\ hist.ret.records = [i \in 1..k |-> hist.appended[n - i + 1]]

\* C21: at every point during and after a sequence of appends, the point
\* between the deletion of the other file and the write included, the two
\* files together hold the min(n, histlen) most recently completed records,
\* and a file changes only by an append or by its deletion.
C21_RecentRecordsSurvive ==
    [][ LET n == Len(hist'.appended)
            k == Min(n, hist'.histlen)
            recent == SubSeq(hist'.appended, n - k + 1, n)
            holds(stored) ==
                /\ Len(stored) >= k
                /\ SubSeq(stored, Len(stored) - k + 1, Len(stored)) = recent
        IN /\ \/ holds(hist'.files[1] \o hist'.files[2])
              \/ holds(hist'.files[2] \o hist'.files[1])
           /\ \A i \in 1..2 :
                 \/ hist'.files[i] = hist.files[i]
                 \/ hist'.files[i] = <<>>
                 \/ /\ Len(hist'.files[i]) = Len(hist.files[i]) + 1
                    /\ SubSeq(hist'.files[i], 1, Len(hist.files[i]))
                         = hist.files[i] ]_vars

\* An append stopped right after it deleted the older file: what is left is
\* exactly histlen records.
C21_Witness ==
    /\ hist.ret.op = "crash"
    /\ Len(hist.appended) > hist.histlen
    /\ Len(hist.files[1]) + Len(hist.files[2]) = hist.histlen
    /\ hist.histlen > 1

\* C22: once a receive callback has finished the neighbors table holds at
\* most max_neighbors entries, for any Hello frames of any senders and any
\* interleaving with the eviction loop of the Hello emitter.
C22_NeighborsBounded ==
    (ev.op = "rx") => Cardinality(DOMAIN neighbors) <= max_neighbors

\* C23: a frame that differs from an encrypted frame in one bit, anywhere
\* but the Relayed flag bit and the ttl byte, is decrypted by no keychain:
\* decrypt returns None.
C23_MacRejection ==
    (/\ call.fn = "decrypt"
     /\ call.via = "flip"
     /\ call.place[1] # "ttl"
     /\ call.place # <<"flags", MessageFlagsRelayed>>)
      => call.ret = None

\* C24: a frame encrypted under key k whose Relayed flag was set or cleared
\* and whose ttl was replaced still decrypts under k to the same payload,
\* and the plaintext frame returned has the received flags and ttl.
C24_MutableHeaderTolerated ==
    (/\ call.fn = "decrypt"
     /\ call.via = "relay"
     /\ call.key_name \in DOMAIN call.dkeys
     /\ call.dkeys[call.key_name] = call.keys[call.key_name])
      => /\ call.ret.ok
         /\ call.dkeys[call.ret.key_name] = call.keys[call.key_name]
         /\ call.ret.packet =
              [call.packet EXCEPT !.flags = call.frame.flags,
                                  !.ttl = call.frame.ttl]

\* A frame sent without the Relayed flag arrives with it and with another
\* ttl, and is decrypted by a keychain that holds other keys too.
C24_Witness ==
    /\ call.fn = "decrypt"
    /\ call.via = "relay"
    /\ call.ret.ok
    /\ ~HasFlag(call.packet.flags, MessageFlagsRelayed)
    /\ HasFlag(call.frame.flags, MessageFlagsRelayed)
    /\ call.frame.ttl # call.packet.ttl
    /\ call.frame.padlen > 0
    /\ Cardinality(DOMAIN call.dkeys) > 1

\* C25: for every keychain, key name k in it and well-formed packet P,
\* decrypt(encrypt(P, k)) returns the pair (k, P).
C25_EncryptDecryptRoundTrip ==
    (/\ call.fn = "decrypt"
     /\ call.via = "encrypt"
     /\ call.dkeys = call.keys)
      => call.ret = [ok |-> TRUE, key_name |-> call.key_name,
                     packet |-> call.packet]

\* C26: for every well-formed Data, Ack and Hello message m, also with a
\* multi-byte or empty nick, from_encoded(m.encode()) equals m in every
\* field on the wire, and the bytes are laid out as the S1 frame is.
C26_EncodeDecodeRoundTrip ==
    /\ (call.fn = "from_encoded") => (call.ret.ok /\ call.ret.m = call.m)
    /\ (/\ call.fn \in {"encode", "from_encoded"}
        /\ call.m = WireMessage(MessageTypeData, 0, 305419896, 15,
                                <<170, 187, 204, 221, 238, 1>>,
                                <<97, 108, 105, 99, 101>>, <<104, 105>>,
                                255, <<>>, 0, 0))
         => call.encoded = <<0, 0, 120, 86, 52, 18, 15, 170, 187, 204, 221,
                             238, 1, 5, 97, 108, 105, 99, 101, 104, 105>>

\* C27: a '!' line that names an unknown command, or gives a known
\* command a wrong number of arguments or a non-numeric or out-of-range
\* argument, gets at least one reply and raises no exception.
C27_BadCommandsAreAnswered ==
    LET argv == call.argv
        numeric == {"pw", "sp", "cr", "bw", "last"}
        known == numeric \cup {"nick", "preset"}
        bad == \/ argv[1] \notin known
               \/ Len(argv) > 2
               \/ argv[1] = "preset" /\ Len(argv) # 2
               \/ /\ argv[1] \in numeric
                  /\ Len(argv) = 2
                  /\ \/ argv[2] \notin DOMAIN Numerals
                     \/ argv[1] = "last" /\ Numerals[argv[2]] < 1
                     \/ argv[1] = "sp" /\ Numerals[argv[2]] \notin 6..12
                     \/ argv[1] = "cr" /\ Numerals[argv[2]] \notin 5..8
                     \/ argv[1] = "pw" /\ Numerals[argv[2]] \notin 2..20
    IN (call.fn = "exec_user_command" /\ bad)
         => (call.replies >= 1 /\ call.ret # "raised")

\* C28: from the valid configuration, after any !sp, !cr, !bw, !pw and
\* !preset commands, lora_sp is in 6..12, lora_cr in 5..8, lora_bw one of
\* the ten bandwidths and lora_pw in 2..20; a command that changed no
\* radio parameter did not reconfigure the radio, and a rejected value
\* changes nothing.
C28_RadioParametersInRange ==
    LET radio(c) == <<c.lora_sp, c.lora_cr, c.lora_bw, c.lora_pw>>
    IN (call.fn = "exec_user_command") =>
         /\ config.lora_sp \in 6..12
         /\ config.lora_cr \in 5..8
         /\ config.lora_bw \in {7800, 10400, 15600, 20800, 31250, 41700,
                                 62500, 125000, 250000, 500000}
         /\ config.lora_pw \in 2..20
         /\ (call.replies = 2 \/ call.ret \in {"False", "unknown"})
              => (config = call.before /\ ~call.reconfigured)
         /\ call.reconfigured => call.argv[1] \in {"sp", "cr", "bw", "pw",
                                                   "preset"}

\* '!sp 13' was typed after '!sp 6' was accepted: the value is rejected and
\* the accepted one stays.
C28_Witness ==
    /\ call.fn = "exec_user_command"
    /\ call.argv = <<"sp", "13">>
    /\ call.before.lora_sp = 6
    /\ config.lora_sp = 6
    /\ ~call.reconfigured

\* C29: a message the receive callback appended to the send queue while
\* send_messages_in_queue runs is in the queue when the pass ends, also
\* when the callback ran between the read of self.send_queue and its
\* re-assignment: the store that ends the pass drops nothing that is in
\* the queue.
C29_QueueKeepsCallbackMessages ==
    [][(pc = "drain_assign" /\ pc' = "evict")
         => \A o \in Elems(send_queue) : o \in Elems(send_queue')]_vars

\* C30: a uid the receive callback inserted while evict_processed_cache
\* runs is in processed_a or processed_b when the pass ends, also when the
\* callback ran between the test that processed_a is empty and the swap:
\* no step of the pass drops a uid that is younger than maxage.
C30_CacheKeepsCallbackUids ==
    [][(pc \in {"evict", "evict_test", "evict_swap"} /\ pc' # pc)
         => \A o \in processed_a \cup processed_b :
              (now - heap[o].ctime <= evict_maxage)
                => \E o2 \in processed_a' \cup processed_b' :
                      heap'[o2].uid = heap[o].uid]_vars

\* C31: handling an Ack sets send_canceled on the message it refers to
\* only when every sender of the neighbor table is in the ack-set of that
\* message, whatever Acks arrived from senders that are not in the table.
C31_CancelOnlyWhenAllNeighborsAcked ==
    [][(/\ ev'.op = "rx"
        /\ ev'.res = "ack"
        /\ ~heap[ev'.o].send_canceled
        /\ heap'[ev'.o].send_canceled)
         => DOMAIN neighbors' \subseteq heap'[ev'.o].acks]_vars

\* C32 as stated: a message canceled before it was ever transmitted is
\* still transmitted once when a pass pops it due with the radio free.
C32_CanceledStillSentOnce ==
    [][(/\ DrainIter
        /\ is_due(heap[Head(send_queue)], now)
        /\ heap[Head(send_queue)].send_canceled
        /\ ~heap[Head(send_queue)].sent
        /\ ~lora.tx_in_progress)
         => ev'.res = "sent"]_vars

\* C32 amended: a message canceled before it was ever transmitted is never
\* transmitted; the pass that pops it due with the radio free hands
\* nothing to the radio and drops it from the queue.
C32_CanceledBeforeFirstTxNeverSent ==
    [][/\ \A o \in OIDs :
            (heap[o].send_canceled /\ ~heap[o].sent) => ~heap'[o].sent
       /\ (/\ DrainIter
           /\ is_due(heap[Head(send_queue)], now)
           /\ heap[Head(send_queue)].send_canceled
           /\ ~heap[Head(send_queue)].sent
           /\ ~lora.tx_in_progress)
            => /\ ev'.res = "skipped"
               /\ on_air' = on_air
               /\ Head(send_queue) \notin
                    Elems(send_queue') \cup Elems(send_later')]_vars

\* A pass has just skipped a canceled message that was never transmitted
\* and had transmissions left.
C32_Witness ==
    /\ ev.op = "drain"
    /\ ev.res = "skipped"
    /\ heap[ev.o].send_canceled
    /\ ~heap[ev.o].sent
    /\ heap[ev.o].num_tx > 1
    /\ ev.o \notin Elems(send_queue) \cup Elems(send_later)

\* C33: a message enqueued with num_tx = N is handed to the radio at most
\* N times, whatever passes, put-backs and watchdog resets happen; each
\* transmission after which it stays queued decrements num_tx by exactly
\* one, and num_tx is at least 1 while the message is in the queue.
C33_AtMostNumTxTransmissions ==
    /\ [](/\ \A o \in OIDs : heap[o].txs <= heap[o].asked_tx
          /\ \A o \in Elems(send_queue) \cup Elems(send_later) :
                /\ heap[o].num_tx >= 1
                /\ heap[o].txs + heap[o].num_tx <= heap[o].asked_tx)
    /\ [][(ev'.op = "drain" /\ ev'.res = "sent")
            => /\ heap'[ev'.o].txs = heap[ev'.o].txs + 1
               /\ (ev'.o \in Elems(send_queue') \cup Elems(send_later'))
                    => heap'[ev'.o].num_tx = heap[ev'.o].num_tx - 1]_vars

\* A message enqueued with num_tx 3 has just been handed to the radio for
\* the third time and has left the queue.
C33_Witness ==
    /\ ev.op = "drain"
    /\ ev.res = "sent"
    /\ heap[ev.o].asked_tx = 3
    /\ heap[ev.o].txs = 3
    /\ ev.o \notin Elems(send_queue) \cup Elems(send_later)

\* C34: every message in the send queue eventually leaves it when cron
\* keeps running, the clock advances, the channel is clear and every
\* transmission completes: a queued message whose send_time lies before
\* the end of the run leaves the queue, or is re-scheduled past that end.
C34_QueuedMessagesLeave ==
    \A o \in OIDs :
       (/\ o \in Elems(send_queue) \cup Elems(send_later)
        /\ heap[o].send_time < MaxLongTime)
         ~> (\/ o \notin Elems(send_queue) \cup Elems(send_later)
             \/ heap[o].send_time >= MaxLongTime)

\* Two messages were queued; one has just had its last transmission and
\* left, the other is still waiting for its time.
C34_Witness ==
    /\ ev.op = "drain"
    /\ ev.res = "sent"
    /\ heap[ev.o].num_tx = 1
    /\ heap[ev.o].txs >= 2
    /\ ~config.quiet
    /\ ev.o \notin Elems(send_queue) \cup Elems(send_later)
    /\ Elems(send_queue) \cup Elems(send_later) # {}

\* C35: a message is handed to the radio only when its send_time is
\* strictly in the past; an entry found not due is moved to send_later
\* with every field as it was; a message re-queued after a transmission
\* is scheduled at least TX_AGAIN_MIN_DELAY after it, and the send_time of
\* a queued message changes at no other step.
C35_NeverSentBeforeSendTime ==
    [][ /\ (ev'.op = "drain" /\ ev'.res = "sent")
           => heap[ev'.o].send_time < now
        /\ (ev'.op = "drain" /\ ev'.res = "later")
           => /\ ~ (heap[ev'.o].send_time < now)
              /\ heap'[ev'.o] = heap[ev'.o]
              /\ ev'.o \in Elems(send_later')
        /\ \A o \in Elems(send_queue) \cup Elems(send_later) :
              o \in Elems(send_queue') \cup Elems(send_later')
              => IF heap'[o].txs # heap[o].txs
                 THEN heap'[o].send_time >= now + TX_AGAIN_MIN_DELAY
                 ELSE /\ heap'[o].send_time = heap[o].send_time
                      /\ heap'[o].num_tx = heap[o].num_tx
                      /\ heap'[o].flags = heap[o].flags ]_vars

\* A message already transmitted once, found not due by a later pass and
\* deferred.
C35_Witness ==
    /\ ev.op = "drain"
    /\ ev.res = "later"
    /\ heap[ev.o].txs >= 1
    /\ heap[ev.o].send_time >= now
    /\ ev.o \in Elems(send_later)

\* C36: get_records(index, count), for every index >= 0, every count >= 1
\* and every state of the two files, returns without raising at most count
\* records, and no more than are stored.
C36_GetRecordsNeverFails ==
    hist.ret.op = "get_records"
      => /\ ~hist.ret.raised
         /\ Len(hist.ret.records) <= Min(hist.ret.count, get_num_records(hist))

\* C37: the slots get_duty_cycle counts are exactly those whose epoch e'
\* satisfies e - slots_num < e' <= e, e being the current epoch, a slot
\* written during epoch 0 included; a slot still holding -1 is not counted.
C37_DutyCycleCountsWindowSlots ==
    LET e == get_epoch(now)
    IN ValidSlots(duty_cycle, now) =
          {i \in DOMAIN duty_cycle.slots :
              /\ duty_cycle.slots[i].epoch # -1
              /\ e - slots_num < duty_cycle.slots[i].epoch
              /\ duty_cycle.slots[i].epoch <= e}

\* C38: an iteration of the Hello emitter leaves in the table every entry
\* whose age is at most hello_msg_max_age and none that is older, and
\* then, when quiet is off, has appended exactly one Hello with num_tx 1
\* whose seen field is the size of the table it left; with quiet on it
\* appends nothing.
C38_HelloIterationEvictsAndAnnounces ==
    [][ ev'.op = "hello"
        => /\ \A k \in DOMAIN neighbors \cup DOMAIN tmp :
                 LET ctime == IF k \in DOMAIN neighbors THEN neighbors[k]
                              ELSE tmp[k]
                 IN k \in DOMAIN neighbors' <=> now - ctime <= hello_msg_max_age
           /\ IF config.quiet
              THEN send_queue' = send_queue
              ELSE /\ Len(send_queue') = Len(send_queue) + 1
                   /\ SubSeq(send_queue', 1, Len(send_queue)) = send_queue
                   /\ LET m == heap'[send_queue'[Len(send_queue')]]
                      IN /\ m.type = MessageTypeHello
                         /\ m.num_tx = 1
                         /\ m.seen = Cardinality(DOMAIN neighbors') ]_vars

\* ------------------------------------------------- a line of relaying nodes
\* A Data message originated with ttl t travels along a line of nodes that
\* all run this engine.  The node modelled is the one the frame has
\* reached; `call' holds the ttl of the origin, the relay hops made so far
\* and the frame on the air.
ChainCall(t, hops, frame) ==
    [fn |-> "chain", t |-> t, hops |-> hops, frame |-> frame]

\* Message.encode of a transmitted message as the next node's radio
\* delivers it: the low byte of the flags, uid, ttl and sender as packed.
on_wire(m) ==
    Frame("plain", m.type, m.flags % 256, m.uid, m.ttl, m.sender, WeakRssi,
          FALSE)

\* The frame as one node receives it: any signal strength, and for an
\* encrypted frame a node that has the key or one that has not.
heard_as(f) ==
    { [f EXCEPT !.rssi = r, !.kind = k] :
        r \in {WeakRssi, StrongRssi},
        k \in IF HasFlag(f.flags, MessageFlagsEncr)
              THEN {"decrypted", "no_key"} ELSE {"plain"} }

ChainInit ==
    /\ now = 0
    /\ heap = [o \in OIDs |-> FreeCell]
    /\ send_queue = <<>>
    /\ send_later = <<>>
    /\ pc = "idle"
    /\ processed_a = {}
    /\ processed_b = {}
    /\ neighbors = <<>>
    /\ lora = [receiving |-> TRUE, tx_in_progress |-> FALSE,
               packet_on_air |-> 0, packet_on_air_type |-> POAPreamble]
    /\ duty_cycle = [slots |-> [i \in 0..(slots_num - 1) |->
                                   [txtime |-> 0, epoch |-> -1]],
                     tx_start_time |-> -1]
    /\ on_air = NoOid
    /\ tmp = <<>>
    /\ ev = Ev("init", "")
    /\ send_queue_max = MeshQueueMax
    /\ config = [quiet |-> FALSE, prom |-> FALSE, check_crc |-> TRUE,
                 automsg |-> TRUE]
    /\ hist = History(histlen)
    /\ \E t \in 0..MaxTtl, encr \in {0, MessageFlagsEncr} :
          call = ChainCall(t, 0,
                           Frame("plain", MessageTypeData,
                                 MessageFlagsPleaseRelay + encr, 1, t, "S",
                                 WeakRssi, FALSE))

\* The node in reach receives the frame on the air.
ChainReceive ==
    \E f \in heard_as(call.frame) : ReceiveLoraPacket(f)

\* The relay this node is transmitting is the frame the next node of the
\* line will receive; that node has just started.
ChainHop ==
    /\ on_air # NoOid
    /\ HasFlag(heap[on_air].flags, MessageFlagsRelayed)
    /\ call' = ChainCall(call.t, call.hops + 1, on_wire(heap[on_air]))
    /\ heap' = [o \in OIDs |-> FreeCell]
    /\ send_queue' = <<>>
    /\ send_later' = <<>>
    /\ pc' = "idle"
    /\ processed_a' = {}
    /\ processed_b' = {}
    /\ neighbors' = <<>>
    /\ lora' = [receiving |-> TRUE, tx_in_progress |-> FALSE,
                packet_on_air |-> 0, packet_on_air_type |-> POAPreamble]
    /\ duty_cycle' = [slots |-> [i \in 0..(slots_num - 1) |->
                                    [txtime |-> 0, epoch |-> -1]],
                      tx_start_time |-> -1]
    /\ on_air' = NoOid
    /\ tmp' = <<>>
    /\ ev' = Ev("hop", "")
    /\ UNCHANGED <<hist, send_queue_max, now, config>>

ChainNext ==
    \/ ChainReceive
    \/ ChainHop
    \/ CronStep
    \/ LoraTxDone
    \/ Tick

ChainSpec == ChainInit /\ [][ChainNext]_vars

\* C39: a message enters the send queue with the Relayed flag only with
\* 1 <= ttl < the ttl of the frame received, every queued relay has a ttl
\* of at least 1, and along a line of nodes a message originated with ttl
\* t makes at most t - 1 relay hops.
C39_RelayHopsBoundedByTtl ==
    /\ [](/\ \A o \in Elems(send_queue) \cup Elems(send_later) :
                HasFlag(heap[o].flags, MessageFlagsRelayed)
                => heap[o].ttl >= 1 /\ heap[o].ttl <= 255
          /\ call.hops <= Max(call.t - 1, 0)
          /\ call.frame.ttl = call.t - call.hops)
    /\ [][ (ev'.op = "rx" /\ ev'.relay # NoOid)
           => /\ heap'[ev'.relay].ttl >= 1
              /\ heap'[ev'.relay].ttl < ev'.frame.ttl
              /\ ev'.frame.ttl = call.frame.ttl ]_vars

\* The message originated with the largest ttl has made its last hop: the
\* node reached received it with ttl 1 and relays nothing.
C39_Witness ==
    /\ call.t = MaxTtl
    /\ call.hops = MaxTtl - 1
    /\ call.frame.ttl = 1
    /\ ev.op = "rx"
    /\ ev.res \in {"data", "no_key"}
    /\ ev.relay = NoOid
    /\ ev.frame.ttl = 1

\* ------------------------------------------------- the keys of the CLI
\* CommandsController.__init__ with the keychain load_keys found on the
\* device: keys maps a key name to its secret, default_key is "" for None,
\* ret is what the last line typed did and msg_key the key_name of the
\* message it enqueued.
CommandsController(keys) ==
    [fn |-> "keys", keys |-> keys, default_key |-> "", ret |-> "",
     msg_key |-> ""]

\* Keychain.has_key.
has_key(keys, key_name) == key_name \in DOMAIN keys

\* Keychain.add_key: the file is written, load_keys reads every file.
add_key(keys, key_name, key) ==
    [n \in DOMAIN keys \cup {key_name} |->
        IF n = key_name THEN key ELSE keys[n]]

\* Keychain.del_key.
del_key(keys, key_name) == [n \in DOMAIN keys \ {key_name} |-> keys[n]]

cmd_addkey(c, argv) ==
    IF Len(argv) # 3 THEN [c EXCEPT !.ret = "False"]
    ELSE [c EXCEPT !.keys = add_key(c.keys, argv[2], argv[3]),
                   !.ret = "Key added to keychain."]

cmd_delkey(c, argv) ==
    IF Len(argv) # 2 THEN [c EXCEPT !.ret = "False"]
    ELSE IF has_key(c.keys, argv[2])
    THEN [c EXCEPT !.keys = del_key(c.keys, argv[2]),
                   !.ret = "Key removed from keychain"]
    ELSE [c EXCEPT !.ret = "No such key"]

cmd_usekey(c, argv) ==
    IF Len(argv) # 2 THEN [c EXCEPT !.ret = "False"]
    ELSE IF has_key(c.keys, argv[2])
    THEN [c EXCEPT !.default_key = argv[2], !.ret = "Key set."]
    ELSE [c EXCEPT !.ret = "No such key"]

cmd_nokey(c, argv) ==
    IF Len(argv) # 1 THEN [c EXCEPT !.ret = "False"]
    ELSE [c EXCEPT !.default_key = "", !.ret = "Key unset."]

\* exec_user_command of a line starting with "!" whose command is one of
\* the four, the message of the last line forgotten.
KeyCommand(argv) ==
    /\ pc = "idle"
    /\ LET c == [call EXCEPT !.msg_key = ""]
       IN call' = IF argv[1] = "addkey" THEN cmd_addkey(c, argv)
                  ELSE IF argv[1] = "delkey" THEN cmd_delkey(c, argv)
                  ELSE IF argv[1] = "usekey" THEN cmd_usekey(c, argv)
                  ELSE cmd_nokey(c, argv)
    /\ ev' = Ev("cli", argv[1])
    /\ UNCHANGED <<tmp, hist, send_queue_max, now, config, heap, send_queue, send_later, pc,
                   processed_a, processed_b, neighbors, lora, duty_cycle, on_air>>

\* exec_user_command of a plain-text line: the message is built with
\* key_name = self.default_key and enqueued.
PlainTextLine ==
    /\ pc = "idle"
    /\ call' = [call EXCEPT !.ret = "queued", !.msg_key = call.default_key]
    /\ ev' = Ev("cli", "text")
    /\ UNCHANGED <<tmp, hist, send_queue_max, now, config, heap, send_queue, send_later, pc,
                   processed_a, processed_b, neighbors, lora, duty_cycle, on_air>>

KeyInit ==
    /\ now = 0
    /\ heap = [o \in OIDs |-> FreeCell]
    /\ send_queue = <<>>
    /\ send_later = <<>>
    /\ pc = "idle"
    /\ processed_a = {}
    /\ processed_b = {}
    /\ neighbors = <<>>
    /\ lora = [receiving |-> TRUE, tx_in_progress |-> FALSE,
               packet_on_air |-> 0, packet_on_air_type |-> POAPreamble]
    /\ duty_cycle = [slots |-> [i \in 0..(slots_num - 1) |->
                                   [txtime |-> 0, epoch |-> -1]],
                     tx_start_time |-> -1]
    /\ on_air = NoOid
    /\ tmp = <<>>
    /\ ev = Ev("init", "")
    /\ send_queue_max = QueueMax
    /\ config = [quiet |-> FALSE, prom |-> FALSE, check_crc |-> TRUE,
                 automsg |-> TRUE]
    /\ hist = History(histlen)
    /\ \E keys \in Keychains \cup {<<>>} : call = CommandsController(keys)

KeyArgvs ==
    LET names == {"addkey", "delkey", "usekey", "nokey"}
    IN { <<n>> : n \in names }
         \cup { <<n, k>> : n \in names, k \in KeyNames }
         \cup { <<n, k, s>> : n \in names, k \in KeyNames, s \in Secrets }

KeyNext ==
    \/ \E argv \in KeyArgvs : KeyCommand(argv)
    \/ PlainTextLine

KeySpec == KeyInit /\ [][KeyNext]_vars

\* C40: default_key is None or the name of a key in the keychain, and a
\* plain-text line is enqueued under no key or under a key the keychain
\* holds.
C40_DefaultKeyInKeychain ==
    /\ call.default_key = "" \/ has_key(call.keys, call.default_key)
    /\ call.ret = "queued"
       => call.msg_key = "" \/ has_key(call.keys, call.msg_key)

====
